---- MODULE Spec2Model ----
(***************************************************************************)
(* Scribe: the orchestration core (commands, result envelope, services)    *)
(* and the providers behind it.                                            *)
(*                                                                         *)
(* Encoding of Python values                                               *)
(*   - a reference that may be None is a sequence of length <= 1:          *)
(*     None is <<>>, a present object x is <<x>>;                          *)
(*   - a str is a sequence of tokens, so that concatenation, strip(), the  *)
(*     emptiness tests and prefixes are computed: "" is <<>>, a string     *)
(*     literal of the source is a one-token string, a + b is a \o b;       *)
(*   - a list is a sequence; a list of str is a sequence of sequences.     *)
(***************************************************************************)
EXTENDS Integers, Sequences, FiniteSets, TLC

VARIABLES
    pc,                     \* where the running service call stands
    op,                     \* the service operation that was called
    command,                \* its command object
    transcription_result,   \* what the transcribe capability returned, if it has
    summarize_returned,     \* what the summarize capability returned, if it has
    result,                 \* the outcome handed to the caller, once done
    calls,                  \* provider methods invoked by this call, in order
    constructed,            \* envelopes the program built during this call, in order
    side_effects,           \* what the providers did outside the program during this call
    transcription_provider, \* AudioProcessingService._transcription_provider
    summarization_provider, \* AudioProcessingService._summarization_provider
    model_cache,            \* WhisperTranscriptionProvider._model_cache (its keys)
    api_key,                \* GeminiSummarizationProvider._api_key
    client,                 \* GeminiSummarizationProvider._client
    args,                   \* the parsed command line, when main() drives the call
    stdout,                 \* what main() printed, in order
    stderr,                 \* what main() printed to sys.stderr, in order
    files,                  \* the output files main() wrote
    exit_status             \* the exit status of the process, once it has ended

vars == <<pc, op, command, transcription_result, summarize_returned, result,
          calls, constructed, side_effects, transcription_provider,
          summarization_provider,
          model_cache, api_key, client,
          args, stdout, stderr, files, exit_status>>

service == <<transcription_provider, summarization_provider>>
provider_state == <<model_cache, api_key, client>>
driver == <<args, stdout, stderr, files, exit_status>>

-----------------------------------------------------------------------------
(* Bounds *)

MaxTextLen == 2

-----------------------------------------------------------------------------
(* Python values *)

None == <<>>
Some(x) == <<x>>
Get(o) == o[1]

\* `not s` for an Optional[str]: None and "" are both falsy.
Falsy(s) == s = None \/ Get(s) = <<>>

Whitespace == {" ", "\n"}

RECURSIVE lstrip(_)
lstrip(t) == IF t # <<>> /\ Head(t) \in Whitespace THEN lstrip(Tail(t)) ELSE t

RECURSIVE rstrip(_)
rstrip(t) ==
    IF t # <<>> /\ t[Len(t)] \in Whitespace
    THEN rstrip(SubSeq(t, 1, Len(t) - 1))
    ELSE t

\* str.strip()
strip(t) == rstrip(lstrip(t))

-----------------------------------------------------------------------------
(* core/models/app_result.py *)

\* The dataclass constructor with __post_init__: errors None becomes [].
AppResult(success, value, message, errors) ==
    [success |-> success,
     value   |-> value,
     message |-> message,
     errors  |-> IF errors = None THEN <<>> ELSE Get(errors)]

ok(value, message) == AppResult(TRUE, value, message, None)

\* Variant: the errors are not handed on.
fail_without_errors(message, errors) == AppResult(FALSE, None, message, None)

\* errors is Optional (the parameter defaults to None); `errors or []`.
fail(message, errors) ==
    AppResult(FALSE, None, message,
              IF errors = None \/ Get(errors) = <<>> THEN Some(<<>>) ELSE errors)

\* Variant: the violations are not handed on.
validation_error_without_errors(errors) ==
    AppResult(FALSE, None, <<"Validation failed">>, None)

validation_error(errors) ==
    AppResult(FALSE, None, <<"Validation failed">>, Some(errors))

-----------------------------------------------------------------------------
(* core/models/commands.py *)

ValidModels == {<<"tiny">>, <<"base">>, <<"small">>, <<"medium">>, <<"large">>}

TranscribeAudioCommand(audio_file_path, model) ==
    [audio_file_path |-> audio_file_path, model |-> model]

GenerateSummaryCommand(text) == [text |-> text]

ProcessAudioFileCommand(audio_file_path, model, skip_summary) ==
    [audio_file_path |-> audio_file_path, model |-> model,
     skip_summary |-> skip_summary]

PathError(cmd) ==
    IF Falsy(cmd.audio_file_path)
    THEN << <<"Audio file path is required">> >>
    ELSE <<>>

\* The list without None: an absent model is reported as a violation.
ModelError_rejecting_absent(cmd) ==
    IF cmd.model = None
    THEN << <<"Invalid model: ", "None",
              ". Must be one of: tiny, base, small, medium, large">> >>
    ELSE IF Get(cmd.model) \notin ValidModels
         THEN << <<"Invalid model: ">> \o Get(cmd.model)
                   \o <<". Must be one of: tiny, base, small, medium, large">> >>
         ELSE <<>>

ModelError(cmd) ==
    IF cmd.model # None /\ Get(cmd.model) \notin ValidModels
    THEN << <<"Invalid model: ">> \o Get(cmd.model)
              \o <<". Must be one of: tiny, base, small, medium, large">> >>
    ELSE <<>>

TranscribeAudioCommand_validate(cmd) == PathError(cmd) \o ModelError(cmd)

\* Without the strip(): only an empty or absent text is a violation.
GenerateSummaryCommand_validate_untrimmed(cmd) ==
    IF Falsy(cmd.text)
    THEN << <<"Text is required for summarization">> >>
    ELSE <<>>

GenerateSummaryCommand_validate(cmd) ==
    IF Falsy(cmd.text) \/ strip(Get(cmd.text)) = <<>>
    THEN << <<"Text is required for summarization">> >>
    ELSE <<>>

\* Variant: the model rule is checked before the path rule.
ProcessAudioFileCommand_validate_model_first(cmd) ==
    ModelError(cmd) \o PathError(cmd)

ProcessAudioFileCommand_validate(cmd) == PathError(cmd) \o ModelError(cmd)

-----------------------------------------------------------------------------
(* core/models/transcription.py, core/models/summary.py *)

\* Variant: only the path is checked.
Transcription_post_init_path_only(text, audio_file_path) ==
    IF audio_file_path = <<>>
    THEN Some(<<"Audio file path cannot be empty">>)
    ELSE None

\* The ValueError __post_init__ raises, or None when construction succeeds.
Transcription_post_init(text, audio_file_path) ==
    IF text = <<>> THEN Some(<<"Transcription text cannot be empty">>)
    ELSE IF audio_file_path = <<>>
    THEN Some(<<"Audio file path cannot be empty">>)
    ELSE None

Transcription(text, audio_file_path, model_used, language, duration_seconds) ==
    [text |-> text, audio_file_path |-> audio_file_path,
     model_used |-> model_used, language |-> language,
     duration_seconds |-> duration_seconds]

Summary_post_init(conversation_summary) ==
    IF conversation_summary = <<>>
    THEN Some(<<"Conversation summary cannot be empty">>)
    ELSE None

Summary(conversation_summary, action_items) ==
    [conversation_summary |-> conversation_summary,
     action_items |-> action_items]

-----------------------------------------------------------------------------
(* Bookkeeping of a call *)

Returned(envelope) == [kind |-> "return", value |-> envelope]
Raised(exception) == [kind |-> "raise", exception |-> exception]

\* An envelope the program built, with the function that built it.
Built(site, envelope) == [site |-> site, envelope |-> envelope]

TranscribeCall(audio_file_path, model) ==
    [method |-> "transcribe", audio_file_path |-> audio_file_path,
     model |-> model]

SummarizeCall(text) == [method |-> "summarize", text |-> text]

\* How far a service operation got: its next position, its outcome if it
\* ended, the envelopes it built and the provider calls it made on the way.
Step(next_pc, outcome, built, invoked) ==
    [pc |-> next_pc, result |-> outcome, built |-> built, invoked |-> invoked]

-----------------------------------------------------------------------------
(* Texts a transcript can be *)

Chars == {"a", " "}

TextsOfLen(n) == [1..n -> Chars]

\* Every text of at most MaxTextLen characters, the empty one included.
Texts == UNION {TextsOfLen(n) : n \in 0..MaxTextLen}

-----------------------------------------------------------------------------
(* infrastructure/whisper_provider.py *)

\* What the file system, the whisper package and the engine do in one call.
WhisperEnvs ==
    [file_exists       : BOOLEAN,
     whisper_installed : BOOLEAN,
     load_error        : {None, Some(<<"load error">>)},
     engine_error      : {None, Some(<<"engine error">>)},
     text              : Texts,
     language          : {None, Some(<<"en">>)}]

\* What a provider call did to the world outside the program, in order.
Effect(effect, arg, succeeded) ==
    [effect |-> effect, arg |-> arg, ok |-> succeeded]

\* An exception on its way up.
Thrown(type, message) == [type |-> type, message |-> message]

\* How a provider call ended: with an envelope or with an exception, the
\* cache it left, the envelopes it built and what it did on the way.
WhisperOutcome(envelope, cache, effects) ==
    [result |-> envelope, raised |-> None, model_cache |-> cache,
     built |-> <<Built("transcribe", envelope)>>, effects |-> effects]

WhisperRaises(exception, cache, effects) ==
    [result |-> None, raised |-> Some(exception), model_cache |-> cache,
     built |-> <<>>, effects |-> effects]

\* Variant: the model is loaded before the file is looked for.
WhisperTranscriptionProvider_transcribe_try_loading_first(audio_file_path, model, cache, env) ==
    LET model_name == IF Falsy(model) THEN <<"base">> ELSE Get(model)
        load == IF model_name \in cache
                THEN <<>>
                ELSE <<Effect("whisper.load_model", model_name,
                              env.load_error = None)>>
        exists == load \o <<Effect("os.path.exists", audio_file_path,
                                   env.file_exists)>>
    IN
    IF model_name \notin cache /\ env.load_error # None
    THEN WhisperOutcome(
             fail(<<"Failed to load Whisper model '">> \o model_name \o <<"': ">>
                      \o Get(env.load_error),
                  Some(<<Get(env.load_error)>>)), cache, load)
    ELSE
      LET loaded == cache \cup {model_name}
          engine == exists \o <<Effect("whisper_model.transcribe", audio_file_path,
                                       env.engine_error = None)>>
      IN
      IF ~env.file_exists
      THEN WhisperOutcome(
               fail(<<"Audio file not found: ">> \o audio_file_path, None),
               loaded, exists)
      ELSE IF env.engine_error # None
      THEN WhisperRaises(Thrown("RuntimeError", Get(env.engine_error)),
                         loaded, engine)
      ELSE
        LET text == strip(env.text)
            error == Transcription_post_init(text, audio_file_path)
        IN  IF error # None
            THEN WhisperRaises(Thrown("ValueError", Get(error)), loaded, engine)
            ELSE WhisperOutcome(
                     ok(Some(Transcription(text, audio_file_path, model_name,
                                           env.language, None)),
                        <<"Transcription completed successfully">>),
                     loaded, engine)

\* Lines 28-68: the body of the try block.
WhisperTranscriptionProvider_transcribe_try(audio_file_path, model, cache, env) ==
    LET exists == <<Effect("os.path.exists", audio_file_path, env.file_exists)>>
        import == exists \o <<Effect("import whisper", <<"whisper">>, env.whisper_installed)>>
    IN
    IF ~env.file_exists
    THEN WhisperOutcome(
             fail(<<"Audio file not found: ">> \o audio_file_path, None),
             cache, exists)
    ELSE IF ~env.whisper_installed
    THEN WhisperOutcome(
             fail(<<"Whisper is not installed. Please install with: pip install openai-whisper">>,
                  Some(<< <<"Missing dependency: openai-whisper">> >>)),
             cache, import)
    ELSE
      LET model_name == IF Falsy(model) THEN <<"base">> ELSE Get(model)
          load == IF model_name \in cache
                  THEN import
                  ELSE import \o <<Effect("whisper.load_model", model_name,
                                          env.load_error = None)>>
      IN
      IF model_name \notin cache /\ env.load_error # None
      THEN WhisperOutcome(
               fail(<<"Failed to load Whisper model '">> \o model_name \o <<"': ">>
                        \o Get(env.load_error),
                    Some(<<Get(env.load_error)>>)), cache, load)
      ELSE
        LET loaded == cache \cup {model_name}
            engine == load \o <<Effect("whisper_model.transcribe", audio_file_path,
                                       env.engine_error = None)>>
        IN
        IF env.engine_error # None
        THEN WhisperRaises(Thrown("RuntimeError", Get(env.engine_error)),
                           loaded, engine)
        ELSE
          LET text == strip(env.text)
              error == Transcription_post_init(text, audio_file_path)
          IN  IF error # None
              THEN WhisperRaises(Thrown("ValueError", Get(error)), loaded, engine)
              ELSE WhisperOutcome(
                       ok(Some(Transcription(text, audio_file_path, model_name,
                                             env.language, None)),
                          <<"Transcription completed successfully">>),
                       loaded, engine)

\* Variant: the handler catches ValueError only.
WhisperTranscriptionProvider_transcribe_catching_ValueError(audio_file_path, model, cache, env) ==
    LET body == WhisperTranscriptionProvider_transcribe_try(
                    audio_file_path, model, cache, env)
    IN  IF body.raised # None /\ Get(body.raised).type = "ValueError"
        THEN WhisperOutcome(
                 fail(<<"Transcription failed: ">> \o Get(body.raised).message,
                      Some(<<Get(body.raised).message>>)),
                 body.model_cache, body.effects)
        ELSE body

\* Variant: a model loaded in a call that ends in an exception is not kept.
WhisperTranscriptionProvider_transcribe_forgetting(audio_file_path, model, cache, env) ==
    LET body == WhisperTranscriptionProvider_transcribe_try(
                    audio_file_path, model, cache, env)
    IN  IF body.raised # None
        THEN WhisperOutcome(
                 fail(<<"Transcription failed: ">> \o Get(body.raised).message,
                      Some(<<Get(body.raised).message>>)),
                 cache, body.effects)
        ELSE body

\* Lines 27-74: the try block and its handler, `except Exception as e`.
WhisperTranscriptionProvider_transcribe(audio_file_path, model, cache, env) ==
    LET body == WhisperTranscriptionProvider_transcribe_try(
                    audio_file_path, model, cache, env)
    IN  IF body.raised # None
        THEN WhisperOutcome(
                 fail(<<"Transcription failed: ">> \o Get(body.raised).message,
                      Some(<<Get(body.raised).message>>)),
                 body.model_cache, body.effects)
        ELSE body

-----------------------------------------------------------------------------
(* infrastructure/gemini_provider.py *)

\* `tok in text`
Contains(t, tok) == \E i \in 1..Len(t) : t[i] = tok

\* str.split(sep) for a one-token separator
RECURSIVE split(_, _)
split(t, sep) ==
    IF ~Contains(t, sep)
    THEN <<t>>
    ELSE LET i == CHOOSE k \in 1..Len(t) :
                      t[k] = sep /\ \A j \in 1..(k - 1) : t[j] # sep
         IN  <<SubSeq(t, 1, i - 1)>> \o split(SubSeq(t, i + 1, Len(t)), sep)

\* str.replace(tok, "")
remove(t, tok) == SelectSeq(t, LAMBDA x : x # tok)

LowerToken(tok) ==
    CASE tok = "None identified" -> "none identified"
      [] tok = "SUMMARY:"        -> "summary:"
      [] tok = "ACTION ITEMS:"   -> "action items:"
      [] tok = ".JSON"           -> ".json"
      [] OTHER                   -> tok

\* str.lower()
lower(t) == [i \in 1..Len(t) |-> LowerToken(t[i])]

\* The body of the loop over the lines of the action part: the item the line
\* contributes, as a list of zero or one item.
ActionItemOfLine(raw_line) ==
    LET line == strip(raw_line) IN
    IF line # <<>> /\ Head(line) \in {"-", "*"}
    THEN LET item == strip(Tail(line)) IN
         IF item # <<>> /\ lower(item) # <<"none identified">>
         THEN <<item>>
         ELSE <<>>
    ELSE <<>>

RECURSIVE ActionItemsOfLines(_)
ActionItemsOfLines(lines) ==
    IF lines = <<>>
    THEN <<>>
    ELSE ActionItemOfLine(Head(lines)) \o ActionItemsOfLines(Tail(lines))

\* Variant: no fallback, a response without the markers gives no summary.
ParseResponse_without_fallback(text) ==
    LET response_text == strip(text) IN
    IF Contains(response_text, "SUMMARY:") /\ Contains(response_text, "ACTION ITEMS:")
    THEN LET parts == split(response_text, "ACTION ITEMS:")
             summary_part == strip(remove(parts[1], "SUMMARY:"))
             action_part == strip(parts[2])
         IN  [summary_text |-> summary_part,
              action_items |-> ActionItemsOfLines(split(action_part, "\n"))]
    ELSE [summary_text |-> <<>>, action_items |-> <<>>]

\* Lines 97-119: the summary text and the action items read from a response.
ParseResponse(text) ==
    LET response_text == strip(text) IN
    IF Contains(response_text, "SUMMARY:") /\ Contains(response_text, "ACTION ITEMS:")
    THEN LET parts == split(response_text, "ACTION ITEMS:")
             summary_part == strip(remove(parts[1], "SUMMARY:"))
             action_part == strip(parts[2])
         IN  [summary_text |-> summary_part,
              action_items |-> ActionItemsOfLines(split(action_part, "\n"))]
    ELSE [summary_text |-> response_text, action_items |-> <<>>]

\* Upstream response texts: with and without the markers, with an empty
\* summary section, with bullets of both kinds, with a repeated marker.
GeminiResponseTexts ==
    { <<>>,
      <<" ">>,
      <<"a">>,
      <<"SUMMARY:", "a">>,
      <<"SUMMARY:", "\n", "a", "\n", "ACTION ITEMS:", "\n", "-", " ", "a">>,
      <<"SUMMARY:", " ", "ACTION ITEMS:", "-", "a">>,
      <<"SUMMARY:", "a", "ACTION ITEMS:", "-", "None identified">>,
      <<"SUMMARY:", "a", "ACTION ITEMS:", "*", "a", "\n", "a", "\n", "-", "a", " ", "a">>,
      <<"a", "ACTION ITEMS:", "-", "a", "ACTION ITEMS:", "-", "a", "SUMMARY:">> }

\* The response object generate_content returns: None, or an object whose
\* text is None or a string.
GeminiResponses ==
    {None, Some([text |-> None])}
        \cup {Some([text |-> Some(t)]) : t \in GeminiResponseTexts}

\* What the google.genai package and the API do in one call.
GeminiEnvs ==
    [genai_installed : BOOLEAN,
     client_error    : {None, Some(<<"client error">>)},
     generate_error  : {None, Some(<<"API error">>)},
     response        : GeminiResponses]

InitOutcome(envelope, new_client, effects) ==
    [result |-> envelope, client |-> new_client, effects |-> effects]

\* Variant: a client is created in every call.
GeminiSummarizationProvider_initialize_model_every_call(key, current_client, env) ==
    LET import == <<Effect("import google.genai", <<"google.genai">>, env.genai_installed)>>
        create == import \o <<Effect("genai.Client", Get(key),
                                     env.client_error = None)>>
    IN
    IF Falsy(key)
    THEN InitOutcome(
             fail(<<"Gemini API key not provided. Set GEMINI_API_KEY environment variable or pass api_key parameter">>,
                  Some(<< <<"Missing API key">> >>)), current_client, <<>>)
    ELSE IF ~env.genai_installed
    THEN InitOutcome(
             fail(<<"Google GenAI library is not installed. Please install with: pip install google-genai">>,
                  Some(<< <<"Missing dependency: google-genai">> >>)),
             current_client, import)
    ELSE IF env.client_error # None
    THEN InitOutcome(
             fail(<<"Failed to initialize Gemini client: ">> \o Get(env.client_error),
                  Some(<<Get(env.client_error)>>)), current_client, create)
    ELSE InitOutcome(ok(None, <<>>), Some("genai.Client"), create)

GeminiSummarizationProvider_initialize_model(key, current_client, env) ==
    LET import == <<Effect("import google.genai", <<"google.genai">>, env.genai_installed)>>
        create == import \o <<Effect("genai.Client", Get(key),
                                     env.client_error = None)>>
    IN
    IF current_client # None
    THEN InitOutcome(ok(None, <<>>), current_client, <<>>)
    ELSE IF Falsy(key)
    THEN InitOutcome(
             fail(<<"Gemini API key not provided. Set GEMINI_API_KEY environment variable or pass api_key parameter">>,
                  Some(<< <<"Missing API key">> >>)), current_client, <<>>)
    ELSE IF ~env.genai_installed
    THEN InitOutcome(
             fail(<<"Google GenAI library is not installed. Please install with: pip install google-genai">>,
                  Some(<< <<"Missing dependency: google-genai">> >>)),
             current_client, import)
    ELSE IF env.client_error # None
    THEN InitOutcome(
             fail(<<"Failed to initialize Gemini client: ">> \o Get(env.client_error),
                  Some(<<Get(env.client_error)>>)), current_client, create)
    ELSE InitOutcome(ok(None, <<>>), Some("genai.Client"), create)

GeminiOutcome(init, envelope, effects) ==
    [result |-> envelope, raised |-> None, client |-> init.client,
     built |-> <<Built("_initialize_model", init.result),
                 Built("summarize", envelope)>>,
     effects |-> effects]

GeminiRaises(init, exception, effects) ==
    [result |-> None, raised |-> Some(exception), client |-> init.client,
     built |-> <<Built("_initialize_model", init.result)>>,
     effects |-> effects]

\* Lines 61-129: the body of the try block.
GeminiSummarizationProvider_summarize_try(text, key, current_client, env) ==
    LET init == GeminiSummarizationProvider_initialize_model(key, current_client, env)
        generate == init.effects
                        \o <<Effect("generate_content", text,
                                    env.generate_error = None)>>
    IN
    IF ~init.result.success
    THEN [result |-> init.result, raised |-> None, client |-> init.client,
          built |-> <<Built("_initialize_model", init.result)>>,
          effects |-> init.effects]
    ELSE IF env.generate_error # None
    THEN GeminiRaises(init, Thrown("RuntimeError", Get(env.generate_error)),
                      generate)
    ELSE IF env.response = None \/ Falsy(Get(env.response).text)
    THEN GeminiOutcome(init, fail(<<"Gemini API returned empty response">>, None),
                       generate)
    ELSE
      LET parsed == ParseResponse(Get(Get(env.response).text)) IN
      IF parsed.summary_text = <<>>
      THEN GeminiOutcome(init,
               fail(<<"Failed to extract summary from Gemini response">>, None),
               generate)
      ELSE
        LET error == Summary_post_init(parsed.summary_text) IN
        IF error # None
        THEN GeminiRaises(init, Thrown("ValueError", Get(error)), generate)
        ELSE GeminiOutcome(init,
                 ok(Some(Summary(parsed.summary_text, parsed.action_items)),
                    <<"Summary generated successfully">>), generate)

\* Variant: the handler catches ValueError only.
GeminiSummarizationProvider_summarize_catching_ValueError(text, key, current_client, env) ==
    LET body == GeminiSummarizationProvider_summarize_try(
                    text, key, current_client, env)
    IN  IF body.raised # None /\ Get(body.raised).type = "ValueError"
        THEN [body EXCEPT
                 !.result = fail(<<"Summarization failed: ">>
                                     \o Get(body.raised).message,
                                 Some(<<Get(body.raised).message>>)),
                 !.raised = None,
                 !.built = body.built
                     \o <<Built("summarize",
                                fail(<<"Summarization failed: ">>
                                         \o Get(body.raised).message,
                                     Some(<<Get(body.raised).message>>)))>>]
        ELSE body

\* Lines 60-135: the try block and its handler, `except Exception as e`.
GeminiSummarizationProvider_summarize(text, key, current_client, env) ==
    LET body == GeminiSummarizationProvider_summarize_try(
                    text, key, current_client, env)
    IN  IF body.raised # None
        THEN [body EXCEPT
                 !.result = fail(<<"Summarization failed: ">>
                                     \o Get(body.raised).message,
                                 Some(<<Get(body.raised).message>>)),
                 !.raised = None,
                 !.built = body.built
                     \o <<Built("summarize",
                                fail(<<"Summarization failed: ">>
                                         \o Get(body.raised).message,
                                     Some(<<Get(body.raised).message>>)))>>]
        ELSE body

-----------------------------------------------------------------------------
(* Stand-in providers, as the tests substitute them (tests/*.py): they      *)
(* return any envelope, the ones that break the envelope invariant too.    *)

\* The fields a fixture hands to Transcription(...): any text and path, a
\* duration that is absent, positive or negative.
StubTranscriptionFields ==
    [text             : Texts,
     audio_file_path  : {<<>>, <<"a.mp3">>},
     duration_seconds : {None, Some(1), Some(-1)}]

\* The Transcription objects a fixture can hold: those whose construction
\* did not raise.
StubTranscriptions ==
    {Transcription(f.text, f.audio_file_path, <<"base">>, None,
                   f.duration_seconds) :
        f \in {g \in StubTranscriptionFields :
                   Transcription_post_init(g.text, g.audio_file_path) = None}}

StubSummaryFields ==
    { [conversation_summary |-> <<>>, action_items |-> <<>>],
      [conversation_summary |-> <<"a">>, action_items |-> <<>>],
      [conversation_summary |-> <<"a", " ">>,
       action_items |-> << <<"a">>, <<"a", "a">> >>] }

\* The Summary objects a fixture can hold: those whose construction did not
\* raise.
StubSummaries ==
    {Summary(f.conversation_summary, f.action_items) :
        f \in {g \in StubSummaryFields :
                   Summary_post_init(g.conversation_summary) = None}}

StubFailures ==
    { [message |-> <<"File not found">>,
       errors  |-> << <<"Audio file does not exist">> >>],
      [message |-> <<"API error">>, errors |-> << <<"Invalid API key">> >>],
      [message |-> <<"Timed out">>, errors |-> <<>>],
      [message |-> <<"Validation failed">>, errors |-> <<>>],
      [message |-> <<"Two faults">>, errors |-> << <<"second">>, <<"first">> >>] }

StubTranscribeResults ==
    {AppResult(TRUE, Some(t), <<"Transcription completed successfully">>, None) :
        t \in StubTranscriptions}
    \cup {AppResult(FALSE, None, f.message, Some(f.errors)) : f \in StubFailures}
    \cup {AppResult(TRUE, None, <<>>, None)}
    \cup {AppResult(FALSE, Some(t), <<"Partial">>, None) : t \in StubTranscriptions}

StubSummarizeResults ==
    {AppResult(TRUE, Some(s), <<"Summary generated successfully">>, None) :
        s \in StubSummaries}
    \cup {AppResult(FALSE, None, f.message, Some(f.errors)) : f \in StubFailures}
    \cup {AppResult(TRUE, None, <<>>, None)}
    \cup {AppResult(FALSE, Some(s), <<"Partial">>, None) : s \in StubSummaries}

\* Every way the wired transcription provider can answer transcribe().
TranscribeOutcomes(provider, audio_file_path, model, cache) ==
    IF provider = "whisper"
    THEN {WhisperTranscriptionProvider_transcribe(audio_file_path, model, cache, env) :
              env \in WhisperEnvs}
    ELSE {[result |-> e, raised |-> None, model_cache |-> cache,
           built |-> <<>>, effects |-> <<>>] :
              e \in StubTranscribeResults}

\* Every way the wired summarization provider can answer summarize().
SummarizeOutcomes(provider, text, key, current_client) ==
    IF provider = "gemini"
    THEN {GeminiSummarizationProvider_summarize(text, key, current_client, env) :
              env \in GeminiEnvs}
    ELSE {[result |-> e, raised |-> None, client |-> current_client,
           built |-> <<>>, effects |-> <<>>] :
              e \in StubSummarizeResults}

-----------------------------------------------------------------------------
(* core/services/transcription_service.py *)

\* transcribe_audio up to the provider call (lines 30-39).
transcribe_audio(cmd) ==
    LET validation_errors == TranscribeAudioCommand_validate(cmd) IN
    IF validation_errors # <<>>
    THEN LET r == validation_error(validation_errors) IN
         Step("done", Some(Returned(r)), <<Built("transcribe_audio", r)>>, <<>>)
    ELSE Step("transcribing", None, <<>>,
              <<TranscribeCall(Get(cmd.audio_file_path), cmd.model)>>)

\* Variant: a failure is wrapped the way process_audio_file wraps it.
transcribe_audio_returned_wrapping(tr) ==
    IF tr.success
    THEN Step("done", Some(Returned(tr)), <<>>, <<>>)
    ELSE LET r == fail(<<"Transcription failed: ">> \o tr.message, Some(tr.errors)) IN
         Step("done", Some(Returned(r)), <<Built("transcribe_audio", r)>>, <<>>)

\* Lines 36-39: what the provider returned is the return value.
transcribe_audio_returned(tr) ==
    Step("done", Some(Returned(tr)), <<>>, <<>>)

-----------------------------------------------------------------------------
(* core/services/audio_processing_service.py *)

\* Variant: the text is trimmed before it is handed to the provider.
generate_summary_trimming(cmd) ==
    LET validation_errors == GenerateSummaryCommand_validate(cmd) IN
    IF validation_errors # <<>>
    THEN LET r == validation_error(validation_errors) IN
         Step("done", Some(Returned(r)), <<Built("generate_summary", r)>>, <<>>)
    ELSE Step("summarizing", None, <<>>, <<SummarizeCall(strip(Get(cmd.text)))>>)

\* generate_summary up to the provider call (lines 98-104).
generate_summary(cmd) ==
    LET validation_errors == GenerateSummaryCommand_validate(cmd) IN
    IF validation_errors # <<>>
    THEN LET r == validation_error(validation_errors) IN
         Step("done", Some(Returned(r)), <<Built("generate_summary", r)>>, <<>>)
    ELSE Step("summarizing", None, <<>>, <<SummarizeCall(Get(cmd.text))>>)

\* Line 104: what the provider returned is the return value.
generate_summary_returned(summary_result) == summary_result

\* Variant: an absent model is replaced by the default before the call.
process_audio_file_defaulting_model(cmd) ==
    LET validation_errors == ProcessAudioFileCommand_validate(cmd) IN
    IF validation_errors # <<>>
    THEN LET r == validation_error(validation_errors) IN
         Step("done", Some(Returned(r)), <<Built("process_audio_file", r)>>, <<>>)
    ELSE Step("transcribing", None, <<>>,
              <<TranscribeCall(Get(cmd.audio_file_path),
                               IF cmd.model = None THEN Some(<<"base">>)
                                                   ELSE cmd.model)>>)

\* Variant: the service keeps its last command and answers a repeated
\* command with the result it gave before.
process_audio_file_memoizing(cmd) ==
    IF op = "process_audio_file" /\ pc = "done" /\ command = cmd
    THEN Step("done", result, <<>>, <<>>)
    ELSE
      LET validation_errors == ProcessAudioFileCommand_validate(cmd) IN
      IF validation_errors # <<>>
      THEN LET r == validation_error(validation_errors) IN
           Step("done", Some(Returned(r)), <<Built("process_audio_file", r)>>, <<>>)
      ELSE Step("transcribing", None, <<>>,
                <<TranscribeCall(Get(cmd.audio_file_path), cmd.model)>>)

\* process_audio_file up to the transcribe call (lines 42-51).
process_audio_file(cmd) ==
    LET validation_errors == ProcessAudioFileCommand_validate(cmd) IN
    IF validation_errors # <<>>
    THEN LET r == validation_error(validation_errors) IN
         Step("done", Some(Returned(r)), <<Built("process_audio_file", r)>>, <<>>)
    ELSE Step("transcribing", None, <<>>,
              <<TranscribeCall(Get(cmd.audio_file_path), cmd.model)>>)

\* Variant: the provider's failure is returned as it came, without the prefix.
process_audio_file_transcription_failed_unprefixed(tr) ==
    Step("done", Some(Returned(tr)), <<>>, <<>>)

\* Lines 53-57: the transcription failed.
process_audio_file_transcription_failed(tr) ==
    LET r == fail(<<"Transcription failed: ">> \o tr.message, Some(tr.errors)) IN
    Step("done", Some(Returned(r)), <<Built("process_audio_file", r)>>, <<>>)

\* The end of a call whose Summary or Transcription access raised, or that
\* returned r.
process_audio_file_ends(error, exception, r) ==
    IF error
    THEN Step("done", Some(Raised(exception)), <<>>, <<>>)
    ELSE Step("done", Some(Returned(r)), <<Built("process_audio_file", r)>>, <<>>)

\* Variant: the placeholder summary is built with an empty text.
process_audio_file_skipped_empty(transcription) ==
    LET text == <<>>
        r == ok(Some(<<transcription, Some(Summary(text, <<>>))>>),
                <<"Transcription completed (summary skipped)">>)
    IN  process_audio_file_ends(Summary_post_init(text) # None, "ValueError", r)

\* Lines 62-71: the summary is skipped. Summary(...) raises ValueError when
\* its text is empty.
process_audio_file_skipped(transcription) ==
    LET text == <<"Summary skipped by user">>
        r == ok(Some(<<transcription, Some(Summary(text, <<>>))>>),
                <<"Transcription completed (summary skipped)">>)
    IN  process_audio_file_ends(Summary_post_init(text) # None, "ValueError", r)

\* Variant: a failed summarization is reported with the other stage's prefix.
process_audio_file_summarized_other_prefix(transcription, summary_result) ==
    IF ~summary_result.success
    THEN fail(<<"Transcription failed: ">> \o summary_result.message,
              Some(summary_result.errors))
    ELSE ok(Some(<<transcription, summary_result.value>>),
            <<"Audio processing completed successfully">>)

\* Lines 77-86, once generate_summary has returned summary_result.
process_audio_file_summarized(transcription, summary_result) ==
    IF ~summary_result.success
    THEN fail(<<"Summarization failed: ">> \o summary_result.message,
              Some(summary_result.errors))
    ELSE ok(Some(<<transcription, summary_result.value>>),
            <<"Audio processing completed successfully">>)

\* Variant: the provider is called with the transcription's text directly,
\* without generate_summary's validation.
process_audio_file_summarize_unvalidated(transcription) ==
    IF transcription = None
    THEN process_audio_file_ends(TRUE, "AttributeError", None)
    ELSE Step("summarizing", None, <<>>,
              <<SummarizeCall(Get(transcription).text)>>)

\* Lines 73-75: generate_summary is called with the transcription's text;
\* transcription.text raises AttributeError when transcription is None.
process_audio_file_summarize(transcription) ==
    IF transcription = None
    THEN process_audio_file_ends(TRUE, "AttributeError", None)
    ELSE
      LET inner == generate_summary(
                       GenerateSummaryCommand(Some(Get(transcription).text)))
      IN  IF inner.pc = "done"
          THEN LET r == process_audio_file_summarized(
                            transcription, Get(inner.result).value)
               IN  Step("done", Some(Returned(r)),
                        inner.built \o <<Built("process_audio_file", r)>>, <<>>)
          ELSE inner

\* Variant: the success of the transcription is not checked.
process_audio_file_transcribed_unchecked(cmd, tr) ==
    IF cmd.skip_summary
    THEN process_audio_file_skipped(tr.value)
    ELSE process_audio_file_summarize(tr.value)

\* Variant: skip_summary is not consulted.
process_audio_file_transcribed_never_skipping(cmd, tr) ==
    IF ~tr.success
    THEN process_audio_file_transcription_failed(tr)
    ELSE process_audio_file_summarize(tr.value)

\* Variant: a failed transcription is attempted again.
process_audio_file_transcribed_retrying(cmd, tr) ==
    IF ~tr.success
    THEN Step("transcribing", None, <<>>,
              <<TranscribeCall(Get(cmd.audio_file_path), cmd.model)>>)
    ELSE IF cmd.skip_summary
    THEN process_audio_file_skipped(tr.value)
    ELSE process_audio_file_summarize(tr.value)

\* Lines 53-75, once the provider has returned tr.
process_audio_file_transcribed(cmd, tr) ==
    IF ~tr.success
    THEN process_audio_file_transcription_failed(tr)
    ELSE IF cmd.skip_summary
    THEN process_audio_file_skipped(tr.value)
    ELSE process_audio_file_summarize(tr.value)

-----------------------------------------------------------------------------
(* Callers' inputs *)

AudioPaths == {None, Some(<<>>), Some(<<"a.mp3">>)}

ModelArgs ==
    {None, Some(<<>>), Some(<<"base">>), Some(<<"large">>), Some(<<"invalid">>)}

ProcessAudioFileCommands ==
    {ProcessAudioFileCommand(p, m, s) :
        p \in AudioPaths, m \in ModelArgs, s \in BOOLEAN}

TranscribeAudioCommands ==
    {TranscribeAudioCommand(p, m) : p \in AudioPaths, m \in ModelArgs}

GenerateSummaryCommands ==
    {GenerateSummaryCommand(t) : t \in {None} \cup {Some(x) : x \in Texts}}

ApiKeys == {None, Some(<<>>), Some(<<"key">>)}

-----------------------------------------------------------------------------
(* infrastructure/output_formatter.py *)

RuleWidth == 80

\* ch * 80
Rule(ch) == [i \in 1..RuleWidth |-> ch]

\* sep.join(lines)
RECURSIVE join(_, _)
join(lines, sep) ==
    IF lines = <<>>
    THEN <<>>
    ELSE IF Len(lines) = 1
    THEN lines[1]
    ELSE lines[1] \o <<sep>> \o join(Tail(lines), sep)

\* Lines 29-30 and 87-88: the language line, when there is a language.
LanguageLine(label, transcription) ==
    IF Falsy(transcription.language)
    THEN <<>>
    ELSE << <<label>> \o Get(transcription.language) >>

\* Lines 12-50.
format_console_output(transcription, summary) ==
    join(<< Rule("="), <<"TRANSCRIPTION RESULTS">>, Rule("="),
            <<"File: ">> \o transcription.audio_file_path,
            <<"Model: ">> \o transcription.model_used >>
         \o LanguageLine("Language: ", transcription)
         \o << <<>>, <<"TRANSCRIPTION:">>, Rule("-"), transcription.text, <<>>,
               Rule("="), <<"SUMMARY">>, Rule("="),
               summary.conversation_summary, <<>>,
               <<"ACTION ITEMS:">>, Rule("-") >>
         \o (IF summary.action_items # <<>>
             THEN [i \in 1..Len(summary.action_items) |->
                       <<ToString(i), ". ">> \o summary.action_items[i]]
             ELSE << <<"No action items identified">> >>)
         \o << Rule("=") >>,
         "\n")

\* A file as it was written: its path, its format and what is in it.
Written(output_path, format, content) ==
    [path |-> output_path, format |-> format, content |-> content]

\* Lines 53-57.
save_to_txt(transcription, summary, output_path) ==
    Written(output_path, "txt", format_console_output(transcription, summary))

\* Lines 60-76: the dictionary that json.dump writes.
save_to_json(transcription, summary, output_path) ==
    Written(output_path, "json",
            [transcription |->
                 [text |-> transcription.text,
                  audio_file_path |-> transcription.audio_file_path,
                  model_used |-> transcription.model_used,
                  language |-> transcription.language,
                  duration_seconds |-> transcription.duration_seconds],
             summary |->
                 [conversation_summary |-> summary.conversation_summary,
                  action_items |-> summary.action_items]])

\* Lines 79-108.
save_to_markdown(transcription, summary, output_path) ==
    Written(output_path, "md",
        join(<< <<"# Transcription Results">>, <<>>, <<"## Metadata">>,
                <<"- **File:** ">> \o transcription.audio_file_path,
                <<"- **Model:** ">> \o transcription.model_used >>
             \o LanguageLine("- **Language:** ", transcription)
             \o << <<>>, <<"## Transcription">>, <<>>, transcription.text, <<>>,
                   <<"## Summary">>, <<>>, summary.conversation_summary, <<>>,
                   <<"## Action Items">>, <<>> >>
             \o (IF summary.action_items # <<>>
                 THEN [i \in 1..Len(summary.action_items) |->
                           <<"- ">> \o summary.action_items[i]]
                 ELSE << <<"- No action items identified">> >>)
             \o << <<>> >>,
             "\n"))

-----------------------------------------------------------------------------
(* transcriber.py *)

\* File name extensions an output path can end in.
Extensions == {".txt", ".json", ".JSON", ".md"}

\* os.path.splitext(path)[1]
splitext_ext(path) ==
    IF Len(path) >= 2 /\ path[Len(path)] \in Extensions
    THEN <<path[Len(path)]>>
    ELSE <<>>

\* The values of --output: not given, empty, without an extension and with
\* each extension.
CliOutputs ==
    {None, Some(<<>>), Some(<<"out">>), Some(<<"out", ".txt">>),
     Some(<<"out", ".JSON">>), Some(<<"out", ".md">>)}

\* Two of the five choices of --model.
CliModels == {<<"base">>, <<"large">>}

\* The command lines argparse accepts (lines 34-57).
CliArgs ==
    [audio_file : {<<>>, <<"a.mp3">>},
     model      : CliModels,
     output     : CliOutputs,
     no_summary : BOOLEAN]

\* What open() or the write can raise while the output file is saved.
SaveErrors == {None, Some(<<"Permission denied">>)}

\* Lines 65, 83-89: what main() prints before the call.
Preamble(a) ==
    << <<"Initializing transcription and summarization providers...">>,
       <<"Processing audio file: ">> \o a.audio_file,
       <<"Using Whisper model: ">> \o a.model,
       IF a.no_summary
       THEN <<"Summary generation: SKIPPED">>
       ELSE <<"Summary generation: ENABLED">>,
       <<>> >>

\* What a part of main() printed and wrote, and the exit status it ended with.
Reported(out, err, written, status) ==
    [stdout |-> out, stderr |-> err, files |-> written, exit_status |-> status]

\* An exception that nothing catches: a traceback and exit status 1.
Uncaught(exception) ==
    Reported(<<>>, << <<"Traceback">>, <<exception>> >>, <<>>, 1)

\* Variant: the entries of errors are not printed.
ErrorDetails_header_only(errors) ==
    IF errors # <<>>
    THEN << <<"Details:">> >>
    ELSE <<>>

\* Lines 96-99.
ErrorDetails(errors) ==
    IF errors # <<>>
    THEN << <<"Details:">> >>
             \o [i \in 1..Len(errors) |-> <<"  - ">> \o errors[i]]
    ELSE <<>>

\* Lines 111-118: the file written for an output path.
save(transcription, summary, output_path) ==
    LET ext == lower(splitext_ext(output_path)) IN
    IF ext = <<".json">>
    THEN save_to_json(transcription, summary, output_path)
    ELSE IF ext = <<".md">>
    THEN save_to_markdown(transcription, summary, output_path)
    ELSE save_to_txt(transcription, summary, output_path)

\* Lines 93-124: main() from the return of process_audio_file to its end.
main_reports(a, outcome, save_error) ==
    IF outcome.kind = "raise"
    THEN Uncaught(outcome.exception)
    ELSE
      LET r == outcome.value IN
      IF ~r.success
      THEN Reported(<<>>,
                    << <<"Error: ">> \o r.message >> \o ErrorDetails(r.errors),
                    <<>>, 1)
      ELSE IF r.value = None
      THEN Uncaught("TypeError")
      ELSE IF Get(r.value)[1] = None \/ Get(r.value)[2] = None
      THEN Uncaught("AttributeError")
      ELSE
        LET transcription == Get(Get(r.value)[1])
            summary == Get(Get(r.value)[2])
            shown == << format_console_output(transcription, summary) >>
            completed == << <<"\nProcessing completed successfully!">> >>
        IN  IF Falsy(a.output)
            THEN Reported(shown \o completed, <<>>, <<>>, 0)
            ELSE IF save_error # None
            THEN Reported(shown \o completed,
                          << <<"Warning: Failed to save output file: ">>
                                 \o Get(save_error) >>,
                          <<>>, 0)
            ELSE Reported(shown
                              \o << <<"\nResults saved to: ">> \o Get(a.output) >>
                              \o completed,
                          <<>>,
                          << save(transcription, summary, Get(a.output)) >>, 0)

-----------------------------------------------------------------------------
(* The state machine *)

Init ==
    /\ pc = "idle"
    /\ op = "none"
    /\ command = None
    /\ transcription_result = None
    /\ summarize_returned = None
    /\ result = None
    /\ calls = <<>>
    /\ constructed = <<>>
    /\ side_effects = <<>>
    /\ transcription_provider \in {"stub", "whisper"}
    /\ summarization_provider \in {"stub", "gemini"}
    /\ model_cache = {}
    /\ api_key \in ApiKeys
    /\ client = None
    /\ args = None
    /\ stdout = <<>>
    /\ stderr = <<>>
    /\ files = <<>>
    /\ exit_status = None

\* A caller invokes a service operation; it runs to its first provider call
\* or to its end.
Start(operation, cmd, step) ==
    /\ op' = operation
    /\ command' = cmd
    /\ transcription_result' = None
    /\ summarize_returned' = None
    /\ pc' = step.pc
    /\ result' = step.result
    /\ calls' = step.invoked
    /\ constructed' = step.built
    /\ side_effects' = <<>>
    /\ UNCHANGED <<service, provider_state>>

ProcessAudioFile ==
    /\ pc \in {"idle", "done"}
    /\ args = None
    /\ \E cmd \in ProcessAudioFileCommands :
         Start("process_audio_file", cmd, process_audio_file(cmd))
    /\ UNCHANGED driver

TranscribeAudio ==
    /\ pc \in {"idle", "done"}
    /\ args = None
    /\ \E cmd \in TranscribeAudioCommands :
         Start("transcribe_audio", cmd, transcribe_audio(cmd))
    /\ UNCHANGED driver

GenerateSummary ==
    /\ pc \in {"idle", "done"}
    /\ args = None
    /\ \E cmd \in GenerateSummaryCommands :
         Start("generate_summary", cmd, generate_summary(cmd))
    /\ UNCHANGED driver

\* The transcription provider returns; the operation runs on to its next
\* provider call or to its end. An exception out of the provider is not
\* caught by the service and ends the operation.
TranscribeReturns ==
    /\ pc = "transcribing"
    /\ \E out \in TranscribeOutcomes(transcription_provider,
                                     calls[Len(calls)].audio_file_path,
                                     calls[Len(calls)].model, model_cache) :
         LET step == IF out.raised # None
                     THEN Step("done", Some(Raised(Get(out.raised).type)),
                               <<>>, <<>>)
                     ELSE IF op = "transcribe_audio"
                     THEN transcribe_audio_returned(out.result)
                     ELSE process_audio_file_transcribed(command, out.result)
         IN  /\ transcription_result' =
                    IF out.raised # None THEN None ELSE Some(out.result)
             /\ model_cache' = out.model_cache
             /\ side_effects' = side_effects \o out.effects
             /\ pc' = step.pc
             /\ result' = step.result
             /\ calls' = calls \o step.invoked
             /\ constructed' = constructed \o out.built \o step.built
    /\ UNCHANGED <<op, command, summarize_returned, service, api_key, client,
                   driver>>

\* The summarization provider returns; the operation ends.
SummarizeReturns ==
    /\ pc = "summarizing"
    /\ \E out \in SummarizeOutcomes(summarization_provider,
                                    calls[Len(calls)].text, api_key, client) :
         LET r == IF op = "generate_summary"
                  THEN generate_summary_returned(out.result)
                  ELSE process_audio_file_summarized(
                           Get(transcription_result).value, out.result)
         IN  /\ summarize_returned' =
                    IF out.raised # None THEN None ELSE Some(out.result)
             /\ client' = out.client
             /\ side_effects' = side_effects \o out.effects
             /\ pc' = "done"
             /\ result' = IF out.raised # None
                          THEN Some(Raised(Get(out.raised).type))
                          ELSE Some(Returned(r))
             /\ constructed' =
                    constructed \o out.built
                        \o (IF op = "generate_summary" \/ out.raised # None
                            THEN <<>>
                            ELSE <<Built("process_audio_file", r)>>)
    /\ UNCHANGED <<op, command, transcription_result, calls, service,
                   model_cache, api_key, driver>>

\* main() up to the call of process_audio_file (lines 15-91): it ends at once
\* when the audio file is not there, and otherwise builds the providers, the
\* service and the command and makes the call.
Main ==
    /\ pc = "idle"
    /\ args = None
    /\ transcription_provider = "whisper"
    /\ summarization_provider = "gemini"
    /\ \E a \in CliArgs : \E exists \in {e \in BOOLEAN : a.audio_file = <<>> => ~e} :
         /\ args' = Some(a)
         /\ IF ~exists
            THEN /\ stderr' = << <<"Error: Audio file not found: ">> \o a.audio_file >>
                 /\ exit_status' = Some(1)
                 /\ UNCHANGED <<pc, op, command, transcription_result,
                                summarize_returned, result, calls, constructed,
                                side_effects, service, provider_state, stdout>>
            ELSE /\ Start("process_audio_file",
                          ProcessAudioFileCommand(Some(a.audio_file), Some(a.model),
                                                  a.no_summary),
                          process_audio_file(
                              ProcessAudioFileCommand(Some(a.audio_file),
                                                      Some(a.model), a.no_summary)))
                 /\ stdout' = Preamble(a)
                 /\ UNCHANGED <<stderr, exit_status>>
    /\ files' = files

\* main() from the return of process_audio_file to the end of the process
\* (lines 93-124).
MainReports ==
    /\ args # None
    /\ exit_status = None
    /\ pc = "done"
    /\ \E save_error \in SaveErrors :
         LET o == main_reports(Get(args), Get(result), save_error)
         IN  /\ stdout' = stdout \o o.stdout
             /\ stderr' = stderr \o o.stderr
             /\ files' = files \o o.files
             /\ exit_status' = Some(o.exit_status)
    /\ UNCHANGED <<pc, op, command, transcription_result, summarize_returned,
                   result, calls, constructed, side_effects, service,
                   provider_state, args>>

Next ==
    \/ ProcessAudioFile
    \/ TranscribeAudio
    \/ GenerateSummary
    \/ TranscribeReturns
    \/ SummarizeReturns
    \/ Main
    \/ MainReports

Spec == Init /\ [][Next]_vars

\* A provider call comes back: the operation that made it leaves the position
\* where it waits for the answer. The only steps that do are TranscribeReturns
\* and SummarizeReturns.
TranscribeCallReturns == pc = "transcribing" /\ pc' \in {"summarizing", "done"}
SummarizeCallReturns == pc = "summarizing" /\ pc' = "done"

\* Every provider call that is made returns: the providers are synchronous
\* and the operation resumes as soon as the call comes back.
FairSpec ==
    Spec /\ WF_pc(TranscribeCallReturns) /\ WF_pc(SummarizeCallReturns)

-----------------------------------------------------------------------------
(* Properties *)

InProcessAudioFile == op = "process_audio_file"

\* The transcribe capability has answered this call, with a success / a failure.
TranscriptionSucceeded ==
    transcription_result # None /\ Get(transcription_result).success
TranscriptionFailed ==
    transcription_result # None /\ ~Get(transcription_result).success

\* The summarize capability has answered this call, with a success / a failure.
SummarizationSucceeded ==
    summarize_returned # None /\ Get(summarize_returned).success
SummarizationFailed ==
    summarize_returned # None /\ ~Get(summarize_returned).success

\* The call has ended by returning exactly this envelope.
ReturnedExactly(success, value, message, errors) ==
    /\ pc = "done"
    /\ result = Some([kind |-> "return",
                      value |-> [success |-> success, value |-> value,
                                 message |-> message, errors |-> errors]])

Invoked(method) == {i \in 1..Len(calls) : calls[i].method = method}

\* s.startswith(literal)
StartsWith(s, literal) == s # <<>> /\ Head(s) = literal

\* C1: in process_audio_file, when the transcribe capability returns a
\* failure envelope with message m and errors e, the call returns a failure
\* envelope with message "Transcription failed: " + m, errors e (same entries,
\* same order) and no value.
C1_TranscriptionFailureReported ==
    (InProcessAudioFile /\ TranscriptionFailed) =>
        ReturnedExactly(FALSE, None,
                        <<"Transcription failed: ">>
                            \o Get(transcription_result).message,
                        Get(transcription_result).errors)

C1_Witness ==
    /\ InProcessAudioFile
    /\ TranscriptionFailed
    /\ Len(Get(transcription_result).errors) = 2
    /\ pc = "done"
    /\ ~Get(result).value.success

\* C2: in a process_audio_file call, summarize is invoked only once the
\* transcribe capability has returned a success envelope in that call; if the
\* transcription failed or was never invoked, summarize is never called; and a
\* result whose message starts with "Summarization failed: " is returned only
\* after a successful transcription.
C2_SummarizeOnlyAfterTranscriptionSuccess ==
    InProcessAudioFile =>
        /\ \A i \in Invoked("summarize") :
               /\ TranscriptionSucceeded
               /\ \E j \in Invoked("transcribe") : j < i
        /\ (~TranscriptionSucceeded => Invoked("summarize") = {})
        /\ (/\ result # None
            /\ Get(result).kind = "return"
            /\ StartsWith(Get(result).value.message, "Summarization failed: "))
               => TranscriptionSucceeded

C2_Witness ==
    /\ InProcessAudioFile
    /\ pc = "done"
    /\ TranscriptionSucceeded
    /\ Invoked("summarize") = {2}
    /\ Get(result).kind = "return"
    /\ StartsWith(Get(result).value.message, "Summarization failed: ")

\* The violations validate() reports for the command of the running call.
ValidationErrors ==
    CASE op = "process_audio_file" -> ProcessAudioFileCommand_validate(command)
      [] op = "transcribe_audio"   -> TranscribeAudioCommand_validate(command)
      [] op = "generate_summary"   -> GenerateSummaryCommand_validate(command)
      [] OTHER                     -> <<>>

\* C3: for each of process_audio_file, transcribe_audio and generate_summary,
\* if the command's validate() returns a non-empty list, the operation returns
\* a failure envelope with message "Validation failed", errors equal to that
\* list and no value, and no provider method is invoked during the call.
C3_ValidationFailureReported ==
    ValidationErrors # <<>> =>
        /\ ReturnedExactly(FALSE, None, <<"Validation failed">>, ValidationErrors)
        /\ calls = <<>>
        /\ transcription_result = None
        /\ summarize_returned = None

C3_Witness ==
    /\ InProcessAudioFile
    /\ Len(ValidationErrors) = 2
    /\ pc = "done"
    /\ Get(result).value.errors = ValidationErrors

\* C4: in process_audio_file, when skip_summary is true and the transcription
\* succeeds with t, the call returns a success envelope with message
\* "Transcription completed (summary skipped)" whose value is the pair of t and
\* a summary with conversation_summary "Summary skipped by user" and no action
\* items, and summarize is never invoked.
C4_SkippedSummary ==
    (InProcessAudioFile /\ TranscriptionSucceeded /\ command.skip_summary) =>
        /\ ReturnedExactly(
               TRUE,
               Some(<<Get(transcription_result).value,
                      Some([conversation_summary |-> <<"Summary skipped by user">>,
                            action_items |-> <<>>])>>),
               <<"Transcription completed (summary skipped)">>,
               <<>>)
        /\ Invoked("summarize") = {}

C4_Witness ==
    /\ InProcessAudioFile
    /\ TranscriptionSucceeded
    /\ Get(transcription_result).value # None
    /\ command.skip_summary
    /\ pc = "done"
    /\ Get(result).value.success

\* C5: in process_audio_file, when the summarize capability returns a failure
\* envelope with message m and errors e (so the command was valid,
\* skip_summary false and the transcription a success), the call returns a
\* failure envelope with message "Summarization failed: " + m, errors e and no
\* value.
C5_SummarizationFailureReported ==
    (InProcessAudioFile /\ SummarizationFailed) =>
        /\ ValidationErrors = <<>>
        /\ ~command.skip_summary
        /\ TranscriptionSucceeded
        /\ ReturnedExactly(FALSE, None,
                           <<"Summarization failed: ">>
                               \o Get(summarize_returned).message,
                           Get(summarize_returned).errors)

C5_Witness ==
    /\ InProcessAudioFile
    /\ TranscriptionSucceeded
    /\ SummarizationFailed
    /\ Len(Get(summarize_returned).errors) = 2
    /\ pc = "done"
    /\ Get(result).value.value = None

\* C6: in process_audio_file, when the transcription succeeds with t and the
\* summarization succeeds with s, the call returns a success envelope with
\* message "Audio processing completed successfully" whose value is the pair
\* (t, s), both as the providers returned them; transcribe was invoked exactly
\* once, with (command.audio_file_path, command.model), and summarize exactly
\* once, with t.text.
C6_BothStagesSucceed ==
    (InProcessAudioFile /\ SummarizationSucceeded) =>
        /\ TranscriptionSucceeded
        /\ ReturnedExactly(TRUE,
                           Some(<<Get(transcription_result).value,
                                  Get(summarize_returned).value>>),
                           <<"Audio processing completed successfully">>,
                           <<>>)
        /\ calls = << [method |-> "transcribe",
                       audio_file_path |-> Get(command.audio_file_path),
                       model |-> command.model],
                      [method |-> "summarize",
                       text |-> Get(Get(transcription_result).value).text] >>

C6_Witness ==
    /\ InProcessAudioFile
    /\ SummarizationSucceeded
    /\ Get(summarize_returned).value # None
    /\ Get(summarize_returned).value[1].action_items # <<>>
    /\ command.model = None
    /\ pc = "done"
    /\ Get(result).value.success

\* The envelope invariant: a success carries a value and no errors, a failure
\* carries no value.
EnvelopeInvariant(e) ==
    /\ e.success => (e.value # None /\ e.errors = <<>>)
    /\ ~e.success => e.value = None

\* Every provider that answered during this call is one of the program's own
\* (WhisperTranscriptionProvider, GeminiSummarizationProvider).
AnsweredByOwnProviders ==
    /\ transcription_result # None => transcription_provider = "whisper"
    /\ summarize_returned # None => summarization_provider = "gemini"

\* C7: every envelope constructed anywhere in the program, the providers'
\* internal helpers included, satisfies the envelope invariant: a success
\* carries a value and no errors, a failure carries no value.
C7_EveryEnvelopeKeepsInvariant ==
    \A i \in 1..Len(constructed) : EnvelopeInvariant(constructed[i].envelope)

\* The extent of the departure from C7: the only constructed envelope that
\* breaks the invariant is the ok(None) of
\* GeminiSummarizationProvider._initialize_model, and no envelope a service
\* returns breaks it when the providers that answered are the program's own.
EnvelopeInvariantExceptInitialize ==
    /\ \A i \in 1..Len(constructed) :
           LET e == constructed[i].envelope IN
           /\ ~e.success => e.value = None
           /\ e.success => e.errors = <<>>
           /\ (e.success /\ e.value = None)
                  => constructed[i].site = "_initialize_model"
    /\ (/\ result # None
        /\ Get(result).kind = "return"
        /\ AnsweredByOwnProviders)
           => EnvelopeInvariant(Get(result).value)

\* The providers' answers in this call satisfy the envelope invariant.
ProvidersKeptInvariant ==
    /\ transcription_result # None
           => EnvelopeInvariant(Get(transcription_result))
    /\ summarize_returned # None
           => EnvelopeInvariant(Get(summarize_returned))

\* C8: for every command and every provider answer that satisfies the
\* envelope invariant, process_audio_file, transcribe_audio and
\* generate_summary end by returning an envelope, never by raising.
C8_ServicesNeverRaise ==
    ProvidersKeptInvariant =>
        /\ pc = "done" => result # None
        /\ result # None => Get(result).kind = "return"

C8_Witness ==
    /\ InProcessAudioFile
    /\ pc = "done"
    /\ TranscriptionSucceeded
    /\ SummarizationFailed
    /\ ProvidersKeptInvariant
    /\ Get(result).kind = "return"

\* C9: transcribe_audio with a valid command invokes the transcribe capability
\* exactly once, with (command.audio_file_path, command.model), and returns
\* exactly the envelope the capability returned, success or failure.
C9_TranscribeAudioPassesThrough ==
    (op = "transcribe_audio" /\ ValidationErrors = <<>>) =>
        /\ calls = << [method |-> "transcribe",
                       audio_file_path |-> Get(command.audio_file_path),
                       model |-> command.model] >>
        /\ pc \in {"transcribing", "done"}
        /\ pc = "transcribing" => (transcription_result = None /\ result = None)
        /\ pc = "done" =>
               /\ transcription_result # None
               /\ result = Some([kind |-> "return",
                                 value |-> Get(transcription_result)])

C9_Witness ==
    /\ op = "transcribe_audio"
    /\ pc = "done"
    /\ TranscriptionFailed
    /\ Get(transcription_result).errors # <<>>
    /\ Get(result).value = Get(transcription_result)

\* C10: generate_summary with a valid command (text non-empty after trimming)
\* invokes the summarize capability exactly once, with command.text, and
\* returns exactly the envelope the capability returned, success or failure.
C10_GenerateSummaryPassesThrough ==
    (op = "generate_summary" /\ ValidationErrors = <<>>) =>
        /\ calls = << [method |-> "summarize", text |-> Get(command.text)] >>
        /\ pc \in {"summarizing", "done"}
        /\ pc = "summarizing" => (summarize_returned = None /\ result = None)
        /\ pc = "done" =>
               /\ summarize_returned # None
               /\ result = Some([kind |-> "return",
                                 value |-> Get(summarize_returned)])

C10_Witness ==
    /\ op = "generate_summary"
    /\ pc = "done"
    /\ SummarizationSucceeded
    /\ Get(command.text) # strip(Get(command.text))
    /\ Get(result).value = Get(summarize_returned)

-----------------------------------------------------------------------------
(* Command validation *)

Entries(list) == {list[i] : i \in 1..Len(list)}

\* The model violation validate() writes for a model value.
ModelViolation(value) ==
    <<"Invalid model: ">> \o value
        \o <<". Must be one of: tiny, base, small, medium, large">>

ModelViolations(list) == {e \in Entries(list) : StartsWith(e, "Invalid model: ")}

\* A model is one of the five names, spelled exactly.
OneOfTheFive(value) ==
    \/ value = <<"tiny">>
    \/ value = <<"base">>
    \/ value = <<"small">>
    \/ value = <<"medium">>
    \/ value = <<"large">>

\* Every model argument: absent, each of the five names, and values that are
\* none of them (empty, unknown, a name in capitals, a name with a space).
EveryModelArg ==
    {None, Some(<<>>), Some(<<"tiny">>), Some(<<"base">>), Some(<<"small">>),
     Some(<<"medium">>), Some(<<"large">>), Some(<<"invalid">>),
     Some(<<"BASE">>), Some(<<"base", " ">>)}

\* validate() of a command with a model field reports the model as the
\* claim says.
ModelReported(violations, model) ==
    IF model # None /\ ~OneOfTheFive(Get(model))
    THEN ModelViolations(violations) = {ModelViolation(Get(model))}
    ELSE ModelViolations(violations) = {}

\* C11: for TranscribeAudioCommand and ProcessAudioFileCommand, validate()
\* contains "Invalid model: {value}. Must be one of: tiny, base, small,
\* medium, large" if and only if model is present and is not one of the
\* five names; an absent model produces no model violation and reaches the
\* provider as absent.
C11_ModelViolation ==
    /\ \A path \in AudioPaths : \A model \in EveryModelArg :
           /\ ModelReported(TranscribeAudioCommand_validate(
                                TranscribeAudioCommand(path, model)), model)
           /\ \A skip \in BOOLEAN :
                  ModelReported(ProcessAudioFileCommand_validate(
                      ProcessAudioFileCommand(path, model, skip)), model)
    /\ op \in {"process_audio_file", "transcribe_audio"} =>
           /\ ModelReported(ValidationErrors, command.model)
           /\ ModelViolations(ValidationErrors) # {} =>
                  /\ pc = "done"
                  /\ calls = <<>>
                  /\ ModelViolations(Get(result).value.errors)
                         = ModelViolations(ValidationErrors)
           /\ command.model = None =>
                  /\ pc = "done" /\ Get(result).kind = "return" =>
                         ModelViolations(Get(result).value.errors) = {}
                  /\ \A i \in Invoked("transcribe") : calls[i].model = None

C11_Witness ==
    /\ op = "process_audio_file"
    /\ pc = "done"
    /\ command.model = None
    /\ ~Falsy(command.audio_file_path)
    /\ Invoked("transcribe") # {}
    /\ TranscriptionSucceeded

\* Every character of the text is whitespace (so is the empty text).
WhitespaceOnly(text) == \A i \in 1..Len(text) : text[i] \in {" ", "\n"}

\* Every text argument: absent, every text up to MaxTextLen, and texts
\* with a line break.
EveryTextArg ==
    {None} \cup {Some(t) : t \in Texts}
           \cup {Some(<<"\n">>), Some(<<" ", "\n">>), Some(<<"\n", "a">>),
                 Some(<<"a", "\n">>)}

PathReported(violations, path) ==
    <<"Audio file path is required">> \in Entries(violations)
        <=> (path = None \/ Get(path) = <<>>)

TextReported(violations, text) ==
    <<"Text is required for summarization">> \in Entries(violations)
        <=> (text = None \/ WhitespaceOnly(Get(text)))

\* C12: validate() of a command with an audio_file_path contains "Audio file
\* path is required" if and only if the path is empty or absent;
\* GenerateSummaryCommand.validate() contains "Text is required for
\* summarization" if and only if text is empty, absent or whitespace only.
C12_RequiredFields ==
    /\ \A path \in AudioPaths : \A model \in EveryModelArg :
           /\ PathReported(TranscribeAudioCommand_validate(
                               TranscribeAudioCommand(path, model)), path)
           /\ \A skip \in BOOLEAN :
                  PathReported(ProcessAudioFileCommand_validate(
                      ProcessAudioFileCommand(path, model, skip)), path)
    /\ \A text \in EveryTextArg :
           TextReported(GenerateSummaryCommand_validate(
                            GenerateSummaryCommand(text)), text)
    /\ op \in {"process_audio_file", "transcribe_audio"} =>
           /\ PathReported(ValidationErrors, command.audio_file_path)
           /\ Falsy(command.audio_file_path) =>
                  /\ pc = "done"
                  /\ calls = <<>>
                  /\ <<"Audio file path is required">>
                         \in Entries(Get(result).value.errors)
    /\ op = "generate_summary" =>
           /\ TextReported(ValidationErrors, command.text)
           /\ (command.text = None \/ WhitespaceOnly(Get(command.text))) =>
                  /\ pc = "done"
                  /\ calls = <<>>
                  /\ Get(result).value.errors
                         = << <<"Text is required for summarization">> >>

C12_Witness ==
    /\ op = "generate_summary"
    /\ pc = "done"
    /\ command.text # None
    /\ Get(command.text) # <<>>
    /\ WhitespaceOnly(Get(command.text))
    /\ Get(result).value.errors = << <<"Text is required for summarization">> >>

-----------------------------------------------------------------------------
(* The stages of process_audio_file *)

\* Where a process_audio_file call stands: "transcribing" is the Transcribing
\* stage, "summarizing" the Summarizing stage, "done" the Done stage.
\* Validating is passed inside the step that starts the call, SummaryDecision
\* and Skipping inside the step that takes the transcription's answer.
StagePositions ==
    InProcessAudioFile =>
        /\ Cardinality(Invoked("transcribe")) <= 1
        /\ Cardinality(Invoked("summarize")) <= 1
        /\ Len(calls) <= 2
        /\ Invoked("transcribe") # {} => calls[1].method = "transcribe"
        /\ Invoked("summarize") # {} =>
               /\ Len(calls) = 2
               /\ calls[1].method = "transcribe"
               /\ calls[2].method = "summarize"
               /\ TranscriptionSucceeded
               /\ ~command.skip_summary
        /\ ValidationErrors # <<>> => (pc = "done" /\ calls = <<>>)
        /\ TranscriptionFailed => (pc = "done" /\ Len(calls) = 1)
        /\ SummarizationFailed => (pc = "done" /\ Len(calls) = 2)
        /\ pc = "transcribing" <=>
               (Len(calls) = 1 /\ transcription_result = None)
        /\ pc = "summarizing" <=>
               (Len(calls) = 2 /\ summarize_returned = None)
        /\ pc = "done" <=> result # None

\* A step of a process_audio_file call that is under way belongs to the same
\* call and moves it forward: Transcribing to Summarizing (one summarize
\* invoked) or to Done (none invoked), Summarizing to Done.
StageSteps ==
    (InProcessAudioFile /\ pc \in {"transcribing", "summarizing"}) =>
        /\ op' = op
        /\ command' = command
        /\ pc = "transcribing" =>
               \/ /\ pc' = "summarizing"
                  /\ transcription_result' # None
                  /\ Get(transcription_result').success
                  /\ \E c \in {calls'[Len(calls')]} :
                         /\ c.method = "summarize"
                         /\ calls' = calls \o <<c>>
               \/ /\ pc' = "done"
                  /\ calls' = calls
        /\ pc = "summarizing" => (pc' = "done" /\ calls' = calls)

\* C13: in every process_audio_file call the stages occur only in the order
\* Validating, Transcribing, SummaryDecision, (Summarizing or Skipping),
\* Done: no stage is entered twice, transcribe is invoked at most once and
\* summarize at most once per call, and after any stage fails no provider is
\* invoked again (no retry).
C13_StagesInOrder == []StagePositions /\ [][StageSteps]_vars

C13_Witness ==
    /\ InProcessAudioFile
    /\ pc = "done"
    /\ Len(calls) = 2
    /\ SummarizationFailed

-----------------------------------------------------------------------------
(* Termination of process_audio_file *)

Waiting == InProcessAudioFile /\ pc \in {"transcribing", "summarizing"}

\* A call under way ends only in a step that takes a provider's answer:
\* nothing else (no timeout, no cancellation) moves it.
EndsOnlyOnAnswer ==
    (Waiting /\ pc' = "done") =>
        /\ pc = "transcribing" =>
               (transcription_result = None /\ transcription_result' # None)
        /\ pc = "summarizing" =>
               (summarize_returned = None /\ summarize_returned' # None)

\* C14: provided every provider call returns, every process_audio_file call
\* eventually reaches a terminal state and yields exactly one terminal
\* envelope (success or failure); if a provider call never returns, the call
\* never reaches a terminal state (there is no timeout or cancellation).
C14_EveryCallYieldsOneEnvelope ==
    /\ Waiting ~> (InProcessAudioFile /\ pc = "done")
    /\ [](InProcessAudioFile =>
              /\ pc = "done" <=> result # None
              /\ pc = "done" => Get(result).kind = "return")
    /\ [][EndsOnlyOnAnswer]_vars

\* What holds of the code: every call ends once its provider calls have
\* returned, and only then; it ends with one envelope unless the
\* transcription provider answered with a success that carries no value and
\* the summary was not skipped, in which case it ends by raising.
ProcessAudioFileTerminates ==
    /\ Waiting ~> (InProcessAudioFile /\ pc = "done")
    /\ [](InProcessAudioFile =>
              /\ pc = "done" <=> result # None
              /\ pc = "done" =>
                     \/ Get(result).kind = "return"
                     \/ /\ Get(result) = Raised("AttributeError")
                        /\ TranscriptionSucceeded
                        /\ Get(transcription_result).value = None
                        /\ ~command.skip_summary)
    /\ [][EndsOnlyOnAnswer]_vars

-----------------------------------------------------------------------------
(* Validation failures and their message *)

\* process_audio_file has built a GenerateSummaryCommand from the
\* transcription's text, and its validate() is non-empty: the transcription
\* succeeded with a blank text and the summary is not skipped.
InnerValidationFailed ==
    /\ InProcessAudioFile
    /\ TranscriptionSucceeded
    /\ ~command.skip_summary
    /\ Get(transcription_result).value # None
    /\ WhitespaceOnly(Get(Get(transcription_result).value).text)

ReturnedMessage(message) ==
    /\ pc = "done"
    /\ Get(result).kind = "return"
    /\ Get(result).value.message = message

\* C15: in every process_audio_file call, every command-validation failure
\* (of the caller's command, or of the GenerateSummaryCommand built from the
\* transcription text) is detected before any provider has been invoked and
\* is reported to the caller via a validation_error envelope (message
\* "Validation failed").
C15_ValidationBeforeAnyProvider ==
    (InProcessAudioFile /\ (ValidationErrors # <<>> \/ InnerValidationFailed)) =>
        /\ calls = <<>>
        /\ ReturnedMessage(<<"Validation failed">>)

\* C15, amended: a validation failure of the caller's command is detected
\* before any provider is invoked and is returned as the validation_error
\* envelope; a validation failure of the GenerateSummaryCommand built from
\* the transcription text is detected after transcribe has been invoked and
\* before summarize is, and is returned as a failure with message
\* "Summarization failed: Validation failed" and the violations as errors.
C15_ValidationReported ==
    InProcessAudioFile =>
        /\ ValidationErrors # <<>> =>
               /\ calls = <<>>
               /\ ReturnedExactly(FALSE, None, <<"Validation failed">>,
                                  ValidationErrors)
        /\ InnerValidationFailed =>
               /\ Len(calls) = 1
               /\ calls[1].method = "transcribe"
               /\ ReturnedExactly(FALSE, None,
                      <<"Summarization failed: ", "Validation failed">>,
                      << <<"Text is required for summarization">> >>)

C15_Witness ==
    /\ InnerValidationFailed
    /\ pc = "done"
    /\ Invoked("summarize") = {}
    /\ Get(result).value.errors = << <<"Text is required for summarization">> >>

\* C16: for each of process_audio_file, transcribe_audio and
\* generate_summary, the returned envelope has message exactly "Validation
\* failed" if and only if the call failed command validation (and therefore
\* invoked no provider); a failure that originates in a provider is never
\* returned with that message.
C16_ValidationFailedOnlyFromValidation ==
    /\ ValidationErrors # <<>> => calls = <<>>
    /\ (pc = "done" /\ Get(result).kind = "return") =>
           (Get(result).value.message = <<"Validation failed">>
                <=> ValidationErrors # <<>>)

\* C16, amended: each operation returns message "Validation failed" when the
\* caller's command fails validation, and then has invoked no provider.
\* process_audio_file returns that message in no other case. transcribe_audio
\* and generate_summary, which hand the provider's envelope back unchanged,
\* return it without a validation failure exactly when the provider's own
\* envelope has that message; WhisperTranscriptionProvider and
\* GeminiSummarizationProvider never answer with it.
C16_ValidationFailedMessage ==
    /\ ValidationErrors # <<>> =>
           (calls = <<>> /\ ReturnedMessage(<<"Validation failed">>))
    /\ (ValidationErrors = <<>> /\ ReturnedMessage(<<"Validation failed">>)) =>
           /\ op \in {"transcribe_audio", "generate_summary"}
           /\ op = "transcribe_audio" =>
                  /\ transcription_provider = "stub"
                  /\ Get(result).value = Get(transcription_result)
           /\ op = "generate_summary" =>
                  /\ summarization_provider = "stub"
                  /\ Get(result).value = Get(summarize_returned)
    /\ (op = "transcribe_audio" /\ pc = "done" /\ ValidationErrors = <<>>) =>
           (Get(result).value.message = <<"Validation failed">>
                <=> Get(transcription_result).message = <<"Validation failed">>)
    /\ (op = "generate_summary" /\ pc = "done" /\ ValidationErrors = <<>>) =>
           (Get(result).value.message = <<"Validation failed">>
                <=> Get(summarize_returned).message = <<"Validation failed">>)

C16_Witness ==
    /\ op = "transcribe_audio"
    /\ ValidationErrors = <<>>
    /\ ReturnedMessage(<<"Validation failed">>)
    /\ Invoked("transcribe") # {}

-----------------------------------------------------------------------------
(* Entities *)

\* The Transcription and Summary objects the state holds: the values of the
\* providers' answers and the elements of the pair process_audio_file
\* returned.
ReturnedPair ==
    IF /\ InProcessAudioFile
       /\ pc = "done"
       /\ Get(result).kind = "return"
       /\ Get(result).value.value # None
    THEN {Get(Get(result).value.value)}
    ELSE {}

HeldTranscriptions ==
    {Get(e.value) : e \in {x \in Entries(transcription_result) : x.value # None}}
        \cup {Get(p[1]) : p \in {q \in ReturnedPair : q[1] # None}}

HeldSummaries ==
    {Get(e.value) : e \in {x \in Entries(summarize_returned) : x.value # None}}
        \cup {Get(p[2]) : p \in {q \in ReturnedPair : q[2] # None}}

\* C17: constructing a Transcription fails if and only if text is empty or
\* audio_file_path is empty, and constructing a Summary fails if and only if
\* conversation_summary is empty (action_items may be empty); construction
\* with valid fields never fails, so no Transcription or Summary with an
\* empty required field ever exists.
C17_EntityConstruction ==
    /\ \A text \in Texts : \A path \in {<<>>, <<"a.mp3">>, <<" ">>} :
           Transcription_post_init(text, path) # None
               <=> (text = <<>> \/ path = <<>>)
    /\ \A text \in Texts :
           Summary_post_init(text) # None <=> text = <<>>
    /\ \A t \in HeldTranscriptions : t.text # <<>> /\ t.audio_file_path # <<>>
    /\ \A s \in HeldSummaries : s.conversation_summary # <<>>

C17_Witness ==
    /\ transcription_provider = "whisper"
    /\ TranscriptionFailed
    /\ Get(transcription_result).errors
           = << <<"Transcription text cannot be empty">> >>
    /\ HeldTranscriptions = {}

\* C18: every Transcription that is successfully constructed has
\* duration_seconds either absent or non-negative: construction with a
\* negative duration_seconds fails.
C18_DurationNonNegative ==
    \A t \in HeldTranscriptions :
        t.duration_seconds = None \/ Get(t.duration_seconds) >= 0

-----------------------------------------------------------------------------
(* Independence of the calls *)

Envelope(success, value, message, errors) ==
    [success |-> success, value |-> value, message |-> message,
     errors |-> errors]

Ended(outcome) == [pc |-> "done", result |-> Some(outcome)]
WaitingAt(position) == [pc |-> position, result |-> None]

\* Where a process_audio_file call stands and what it returned, written as
\* a function of its command and of the answers the providers gave during
\* this call, and of nothing else.
OutcomeOf(cmd, transcribed, summarized) ==
    IF ProcessAudioFileCommand_validate(cmd) # <<>>
    THEN Ended([kind |-> "return",
                value |-> Envelope(FALSE, None, <<"Validation failed">>,
                                   ProcessAudioFileCommand_validate(cmd))])
    ELSE IF transcribed = None
    THEN WaitingAt("transcribing")
    ELSE IF ~Get(transcribed).success
    THEN Ended([kind |-> "return",
                value |-> Envelope(FALSE, None,
                              <<"Transcription failed: ">>
                                  \o Get(transcribed).message,
                              Get(transcribed).errors)])
    ELSE IF cmd.skip_summary
    THEN Ended([kind |-> "return",
                value |-> Envelope(TRUE,
                              Some(<<Get(transcribed).value,
                                     Some([conversation_summary |->
                                               <<"Summary skipped by user">>,
                                           action_items |-> <<>>])>>),
                              <<"Transcription completed (summary skipped)">>,
                              <<>>)])
    ELSE IF Get(transcribed).value = None
    THEN Ended([kind |-> "raise", exception |-> "AttributeError"])
    ELSE IF WhitespaceOnly(Get(Get(transcribed).value).text)
    THEN Ended([kind |-> "return",
                value |-> Envelope(FALSE, None,
                              <<"Summarization failed: ", "Validation failed">>,
                              << <<"Text is required for summarization">> >>)])
    ELSE IF summarized = None
    THEN WaitingAt("summarizing")
    ELSE IF ~Get(summarized).success
    THEN Ended([kind |-> "return",
                value |-> Envelope(FALSE, None,
                              <<"Summarization failed: ">>
                                  \o Get(summarized).message,
                              Get(summarized).errors)])
    ELSE Ended([kind |-> "return",
                value |-> Envelope(TRUE,
                              Some(<<Get(transcribed).value,
                                     Get(summarized).value>>),
                              <<"Audio processing completed successfully">>,
                              <<>>)])

OutcomeDetermined ==
    InProcessAudioFile =>
        LET outcome == OutcomeOf(command, transcription_result,
                                 summarize_returned)
        IN  pc = outcome.pc /\ result = outcome.result

\* C20: the outcome of a process_audio_file call depends only on its command
\* and on the envelopes the providers return during that call: the service's
\* own state (its two provider references) is unchanged by any call, and no
\* earlier sequence of calls, successful or failed, changes the result of a
\* later call given the same command and provider responses.
C20_CallsAreIndependent ==
    []OutcomeDetermined /\ [][service' = service]_vars

C20_Witness ==
    /\ InProcessAudioFile
    /\ pc = "done"
    /\ Cardinality(model_cache) >= 2
    /\ client # None
    /\ SummarizationSucceeded
    /\ Get(result).kind = "return"
    /\ Get(result).value.success

-----------------------------------------------------------------------------
(* The providers *)

\* The effects of the named kind among what the providers did in this call.
EffectsOf(effect) ==
    {i \in 1..Len(side_effects) : side_effects[i].effect = effect}

Failed(effect) ==
    \E i \in EffectsOf(effect) : ~side_effects[i].ok

\* Arguments a caller of the providers can pass, the service or any other.
DirectPaths == {<<>>, <<"a.mp3">>}
DirectModels == ModelArgs
Caches == SUBSET {<<"base">>, <<"large">>}
DirectTexts == Texts
Clients == {None, Some("genai.Client")}

\* One transcribe / summarize call, for every argument, provider state and
\* behaviour of the world: it ends with an envelope, and a failure envelope
\* has a message.
AnswersWithEnvelope(out) ==
    /\ out.raised = None
    /\ ~out.result.success =>
           (out.result.message # <<>> /\ out.result.value = None)

WhisperAlwaysAnswers ==
    \A path \in DirectPaths : \A model \in DirectModels :
    \A cache \in Caches : \A env \in WhisperEnvs :
        LET out == WhisperTranscriptionProvider_transcribe(path, model, cache, env)
        IN  /\ AnswersWithEnvelope(out)
            /\ (~env.file_exists \/ ~env.whisper_installed
                  \/ env.engine_error # None \/ strip(env.text) = <<>>
                  \/ path = <<>>) => ~out.result.success

GeminiAlwaysAnswers ==
    \A text \in DirectTexts : \A key \in ApiKeys :
    \A current \in Clients : \A env \in GeminiEnvs :
        LET out == GeminiSummarizationProvider_summarize(text, key, current, env)
        IN  /\ AnswersWithEnvelope(out)
            /\ current = None /\ (Falsy(key) \/ ~env.genai_installed
                                     \/ env.client_error # None)
                   => ~out.result.success
            /\ (current # None /\ env.generate_error # None)
                   => ~out.result.success

\* C21: WhisperTranscriptionProvider.transcribe and
\* GeminiSummarizationProvider.summarize always return an envelope and never
\* raise: every exception raised inside them (missing dependency, model load
\* failure, engine or API runtime error, entity construction failure such as
\* an empty transcribed text) is converted into a failure envelope with a
\* non-empty message.
C21_ProvidersNeverRaise ==
    /\ WhisperAlwaysAnswers
    /\ GeminiAlwaysAnswers
    /\ (transcription_provider = "whisper" /\ Invoked("transcribe") # {}
            /\ pc # "transcribing") =>
           /\ transcription_result # None
           /\ (Failed("import whisper") \/ Failed("whisper.load_model")
                 \/ Failed("whisper_model.transcribe")) =>
                  /\ TranscriptionFailed
                  /\ Get(transcription_result).message # <<>>
                  /\ Get(transcription_result).errors # <<>>
    /\ (summarization_provider = "gemini" /\ Invoked("summarize") # {}
            /\ pc # "summarizing") =>
           /\ summarize_returned # None
           /\ (Failed("import google.genai") \/ Failed("genai.Client")
                 \/ Failed("generate_content")) =>
                  /\ SummarizationFailed
                  /\ Get(summarize_returned).message # <<>>
                  /\ Get(summarize_returned).errors # <<>>

C21_Witness ==
    /\ transcription_provider = "whisper"
    /\ pc = "done"
    /\ Failed("whisper_model.transcribe")
    /\ TranscriptionFailed
    /\ Get(transcription_result).message
           = <<"Transcription failed: ", "engine error">>
    /\ Get(result).kind = "return"

\* One string per violated rule, the path rule first.
OnePerViolatedRule(path, model) ==
    (IF path = None \/ Get(path) = <<>>
     THEN << <<"Audio file path is required">> >>
     ELSE <<>>)
    \o (IF model # None /\ ~OneOfTheFive(Get(model))
        THEN <<ModelViolation(Get(model))>>
        ELSE <<>>)

NoDuplicates(list) ==
    \A i, j \in 1..Len(list) : list[i] = list[j] => i = j

ViolationLists ==
    \A path \in AudioPaths : \A model \in EveryModelArg :
        LET expected == OnePerViolatedRule(path, model)
            first == TranscribeAudioCommand_validate(
                         TranscribeAudioCommand(path, model))
        IN  /\ first = expected
            /\ Len(first) \in {0, 1, 2}
            /\ NoDuplicates(first)
            /\ \A skip \in BOOLEAN :
                   ProcessAudioFileCommand_validate(
                       ProcessAudioFileCommand(path, model, skip)) = expected

\* C22: validate() of TranscribeAudioCommand and ProcessAudioFileCommand
\* returns exactly one string per violated rule: the list has length 0, 1 or
\* 2, contains no duplicates, and when both the path rule and the model rule
\* are violated the path violation precedes the model violation; the service
\* returns this list in the same order as the envelope's errors.
C22_OneStringPerViolatedRule ==
    /\ ViolationLists
    /\ op \in {"process_audio_file", "transcribe_audio"} =>
           LET expected == OnePerViolatedRule(command.audio_file_path,
                                              command.model)
           IN  /\ ValidationErrors = expected
               /\ expected # <<>> =>
                      /\ pc = "done"
                      /\ Get(result).kind = "return"
                      /\ Get(result).value.errors = expected

C22_Witness ==
    /\ InProcessAudioFile
    /\ pc = "done"
    /\ Len(Get(result).value.errors) = 2
    /\ Get(result).value.errors[1] = <<"Audio file path is required">>
    /\ StartsWith(Get(result).value.errors[2], "Invalid model: ")
    /\ calls = <<>>

-----------------------------------------------------------------------------
(* AppResult.fail *)

\* Messages and error lists a caller can hand to AppResult.fail.
FailMessages == {<<>>, <<" ">>, <<"Error message">>}
FailErrors == {None, Some(<<>>), Some(<< <<"Error 1">>, <<"Error 2">> >>)}

\* C23: every failure envelope has a non-empty message: AppResult.fail does
\* not produce an envelope whose message is empty, and fail called without
\* errors yields an envelope whose errors is the empty sequence.
C23_FailureHasMessage ==
    /\ \A message \in FailMessages : \A errors \in FailErrors :
           LET e == fail(message, errors)
           IN  /\ ~e.success
               /\ e.message # <<>>
               /\ errors = None => e.errors = <<>>
    /\ \A i \in 1..Len(constructed) :
           ~constructed[i].envelope.success
               => constructed[i].envelope.message # <<>>

\* What holds of the code: fail keeps the message and the errors it is given,
\* whatever they are, and every failure envelope the services and the
\* providers build themselves has a message.
FailKeepsItsArguments ==
    /\ \A message \in FailMessages : \A errors \in FailErrors :
           LET e == fail(message, errors)
           IN  /\ ~e.success
               /\ e.value = None
               /\ e.message = message
               /\ e.errors = (IF errors = None THEN <<>> ELSE Get(errors))
    /\ \A i \in 1..Len(constructed) :
           ~constructed[i].envelope.success
               => constructed[i].envelope.message # <<>>

\* C24: every success envelope returned by process_audio_file carries a pair
\* whose first element is a present Transcription and whose second element
\* is a present Summary with non-empty conversation_summary, for every
\* envelope the providers can return (a provider success envelope whose
\* value is absent included).
C24_SuccessCarriesBothEntities ==
    (/\ InProcessAudioFile
     /\ pc = "done"
     /\ Get(result).kind = "return"
     /\ Get(result).value.success) =>
        /\ Get(result).value.value # None
        /\ \A pair \in {Get(Get(result).value.value)} :
               /\ pair[1] # None
               /\ pair[2] # None
               /\ Get(pair[2]).conversation_summary # <<>>

\* What holds of the code: the pair carries the values of the providers'
\* success envelopes as they came, so it carries both entities whenever the
\* providers' answers satisfy the envelope invariant.
SuccessCarriesWhatProvidersGave ==
    (/\ InProcessAudioFile
     /\ pc = "done"
     /\ Get(result).kind = "return"
     /\ Get(result).value.success) =>
        /\ Get(result).value.value # None
        /\ \A pair \in {Get(Get(result).value.value)} :
               /\ pair[1] = Get(transcription_result).value
               /\ command.skip_summary =>
                      pair[2] = Some(Summary(<<"Summary skipped by user">>, <<>>))
               /\ ~command.skip_summary =>
                      pair[2] = Get(summarize_returned).value
               /\ ProvidersKeptInvariant =>
                      /\ pair[1] # None
                      /\ pair[2] # None
                      /\ Get(pair[2]).conversation_summary # <<>>

-----------------------------------------------------------------------------
(* The Whisper model cache *)

\* The key a model argument is cached under.
CacheKey(model) == IF model = None \/ Get(model) = <<>> THEN <<"base">> ELSE Get(model)

\* The positions of the loads among the effects of one call.
Loads(done) == {i \in 1..Len(done) : done[i].effect = "whisper.load_model"}

\* The names whose load succeeded among the effects of one call.
LoadedBy(done) == {done[i].arg : i \in {j \in Loads(done) : done[j].ok}}

\* One transcribe call, given the cache it found and the cache it left.
CacheDiscipline(model, before, after, done, answer) ==
    /\ Cardinality(Loads(done)) <= 1
    /\ \A i \in Loads(done) :
           /\ done[i].arg = CacheKey(model)
           /\ CacheKey(model) \notin before
           /\ ~done[i].ok =>
                  /\ ~answer.success
                  /\ StartsWith(answer.message, "Failed to load Whisper model '")
                  /\ after = before
    /\ CacheKey(model) \in before => Loads(done) = {}
    /\ before \subseteq after
    /\ after = before \cup LoadedBy(done)

\* Every call of the provider, on every cache and whatever the file system,
\* the package and the engine do.
WhisperKeepsItsCache ==
    \A path \in DirectPaths : \A model \in DirectModels :
    \A cache \in Caches : \A env \in WhisperEnvs :
        LET out == WhisperTranscriptionProvider_transcribe(path, model, cache, env)
        IN  /\ CacheDiscipline(model, cache, out.model_cache, out.effects,
                               out.result)
            /\ (env.file_exists /\ env.whisper_installed
                    /\ CacheKey(model) \notin cache) => Loads(out.effects) # {}

\* A step of the program: the cache changes only when the Whisper provider
\* returns, and then by the loads of that call that succeeded.
CacheStep ==
    /\ model_cache \subseteq model_cache'
    /\ model_cache' # model_cache =>
           pc = "transcribing" /\ transcription_provider = "whisper"
    /\ (pc = "transcribing" /\ pc' # "transcribing"
            /\ transcription_provider = "whisper" /\ transcription_result' # None) =>
           CacheDiscipline(calls[Len(calls)].model, model_cache, model_cache',
                           SubSeq(side_effects', Len(side_effects) + 1,
                                  Len(side_effects')),
                           Get(transcription_result'))

\* C25: after any sequence of Whisper transcribe calls the model cache holds
\* exactly the model names whose load succeeded: a load is attempted for a
\* name only when it is not cached, a cached model is reused and never
\* reloaded, a failed load returns a failure envelope and leaves the cache
\* unchanged, entries are never removed, and an absent model is keyed as
\* "base".
C25_ModelCache ==
    /\ [](WhisperKeepsItsCache
            /\ (transcription_provider = "stub" => model_cache = {}))
    /\ [][CacheStep]_vars

\* A load failed in a call that found another model cached.
C25_Witness ==
    /\ transcription_provider = "whisper"
    /\ pc = "done"
    /\ model_cache = {<<"base">>}
    /\ Failed("whisper.load_model")
    /\ side_effects[3].arg = <<"large">>
    /\ TranscriptionFailed

-----------------------------------------------------------------------------
(* The audio file that is not there *)

\* Every call of the provider: the existence of the file is what it looks at
\* first, and when the file is not there nothing else happens.
WhisperChecksTheFileFirst ==
    \A path \in DirectPaths : \A model \in DirectModels :
    \A cache \in Caches : \A env \in WhisperEnvs :
        LET out == WhisperTranscriptionProvider_transcribe(path, model, cache, env)
        IN  /\ out.effects # <<>>
            /\ out.effects[1] = Effect("os.path.exists", path, env.file_exists)
            /\ ~env.file_exists =>
                   /\ out.raised = None
                   /\ ~out.result.success
                   /\ out.result.message = <<"Audio file not found: ">> \o path
                   /\ out.result.errors = <<>>
                   /\ out.result.value = None
                   /\ Len(out.effects) = 1
                   /\ out.model_cache = cache

\* The file of the call that just returned was not there.
FileNotFound ==
    /\ transcription_provider = "whisper"
    /\ Failed("os.path.exists")

\* C26: WhisperTranscriptionProvider.transcribe checks file existence before
\* anything else: when the file does not exist it returns a failure with
\* message "Audio file not found: <path>" and empty errors, without loading
\* any model, without running the engine and with the model cache unchanged.
C26_FileExistenceFirst ==
    /\ [](/\ WhisperChecksTheFileFirst
          /\ (transcription_provider = "whisper" /\ Invoked("transcribe") # {}
                  /\ side_effects # <<>>) =>
                 side_effects[1].effect = "os.path.exists"
          /\ FileNotFound =>
                 /\ TranscriptionFailed
                 /\ Get(transcription_result).message
                        = <<"Audio file not found: ">>
                              \o calls[1].audio_file_path
                 /\ Get(transcription_result).errors = <<>>
                 /\ EffectsOf("whisper.load_model") = {}
                 /\ EffectsOf("whisper_model.transcribe") = {}
                 /\ Len(side_effects) = 1)
    /\ [][FileNotFound' => model_cache' = model_cache]_vars

\* The file of a call was not there, with a model in the cache.
C26_Witness ==
    /\ FileNotFound
    /\ pc = "done"
    /\ model_cache = {<<"base">>}
    /\ Get(result).kind = "return"
    /\ ~Get(result).value.success

-----------------------------------------------------------------------------
(* The Gemini client *)

\* The positions of the effects of the named kind in what one call did.
Among(done, effect) == {i \in 1..Len(done) : done[i].effect = effect}

\* One summarize call, given the client it found and the client it left.
ClientDiscipline(key, before, after, done, answer) ==
    /\ Cardinality(Among(done, "genai.Client")) <= 1
    /\ Falsy(key) /\ before = None =>
           /\ ~answer.success
           /\ answer.errors = << <<"Missing API key">> >>
           /\ after = None
           /\ done = <<>>
    /\ before # None =>
           /\ after = before
           /\ Among(done, "genai.Client") = {}
           /\ Among(done, "import google.genai") = {}
           /\ Among(done, "generate_content") # {}
    /\ (before = None /\ ~Falsy(key)) =>
           /\ Among(done, "import google.genai") # {}
           /\ (\A i \in Among(done, "import google.genai") : done[i].ok)
                  => Among(done, "genai.Client") # {}
    /\ \A i \in Among(done, "genai.Client") :
           /\ before = None
           /\ done[i].arg = Get(key)
           /\ done[i].ok => after # None
           /\ ~done[i].ok =>
                  /\ after = None
                  /\ ~answer.success
                  /\ StartsWith(answer.message, "Failed to initialize Gemini client: ")
                  /\ Among(done, "generate_content") = {}
    /\ after # before =>
           \E i \in Among(done, "genai.Client") : done[i].ok
    /\ Among(done, "generate_content") # {} => after # None

\* Every call of the provider, with every key and client and whatever the
\* package and the API do.
GeminiKeepsItsClient ==
    \A text \in DirectTexts : \A key \in ApiKeys :
    \A current \in Clients : \A env \in GeminiEnvs :
        LET out == GeminiSummarizationProvider_summarize(text, key, current, env)
        IN  ClientDiscipline(key, current, out.client, out.effects, out.result)

\* A step of the program: the client changes only when the Gemini provider
\* returns, and a client once there stays.
ClientStep ==
    /\ api_key' = api_key
    /\ client # None => client' = client
    /\ client' # client =>
           pc = "summarizing" /\ summarization_provider = "gemini"
    /\ (pc = "summarizing" /\ pc' = "done"
            /\ summarization_provider = "gemini" /\ summarize_returned' # None) =>
           ClientDiscipline(api_key, client, client',
                            SubSeq(side_effects', Len(side_effects) + 1,
                                   Len(side_effects')),
                            Get(summarize_returned'))

\* C27: the Gemini provider initializes its client lazily and at most once:
\* with no API key every summarize call returns a failure with errors
\* ["Missing API key"], creates no client and makes no generation request;
\* a client once created is reused by every later summarize call, and a
\* failed client creation leaves the client unset so that the next call
\* tries again.
C27_LazyClient ==
    /\ [](/\ GeminiKeepsItsClient
          /\ summarization_provider = "stub" => client = None
          /\ Falsy(api_key) =>
                 /\ client = None
                 /\ EffectsOf("genai.Client") = {}
                 /\ EffectsOf("generate_content") = {}
          /\ (Falsy(api_key) /\ summarization_provider = "gemini"
                  /\ summarize_returned # None) =>
                 /\ SummarizationFailed
                 /\ Get(summarize_returned).errors = << <<"Missing API key">> >>)
    /\ [][ClientStep]_vars

\* A call that found the client of an earlier call and used it.
C27_Witness ==
    /\ summarization_provider = "gemini"
    /\ pc = "done"
    /\ client # None
    /\ EffectsOf("genai.Client") = {}
    /\ EffectsOf("generate_content") # {}
    /\ summarize_returned # None

-----------------------------------------------------------------------------
(* What Gemini answered *)

\* The call gets as far as the generation request and the request returns.
Generates(key, current, env) ==
    /\ current # None
         \/ (~Falsy(key) /\ env.genai_installed /\ env.client_error = None)
    /\ env.generate_error = None

\* The response has a text: neither is absent or empty.
HasText(response) ==
    response # None /\ Get(response).text # None /\ Get(Get(response).text) # <<>>

\* Both markers are in the text.
HasMarkers(t) == Contains(t, "SUMMARY:") /\ Contains(t, "ACTION ITEMS:")

\* Every text a response can carry: without the markers the whole text,
\* less the white space around it, is the summary and there are no items.
FallbackIsWholeResponse ==
    \A t \in Texts \cup GeminiResponseTexts :
        ~HasMarkers(t) =>
            /\ ParseResponse(t).summary_text = strip(t)
            /\ ParseResponse(t).action_items = <<>>

\* Every call of the provider, on every text, key, client and whatever the
\* package and the API do.
GeminiSummaryIsNotEmpty ==
    \A text \in DirectTexts : \A key \in ApiKeys :
    \A current \in Clients : \A env \in GeminiEnvs :
        LET out == GeminiSummarizationProvider_summarize(text, key, current, env)
            answer == out.result
        IN  /\ answer.success =>
                   /\ answer.value # None
                   /\ Get(answer.value).conversation_summary # <<>>
                   /\ strip(Get(answer.value).conversation_summary) # <<>>
                   /\ Generates(key, current, env)
                   /\ HasText(env.response)
            /\ (Generates(key, current, env) /\ ~HasText(env.response)) =>
                   /\ ~answer.success
                   /\ answer.message = <<"Gemini API returned empty response">>
            /\ (Generates(key, current, env) /\ HasText(env.response)) =>
                   LET t == Get(Get(env.response).text) IN
                   /\ ParseResponse(t).summary_text = <<>> =>
                          /\ ~answer.success
                          /\ answer.message
                                 = <<"Failed to extract summary from Gemini response">>
                   /\ (~HasMarkers(t) /\ strip(t) # <<>>) =>
                          /\ answer.success
                          /\ Get(answer.value).conversation_summary = strip(t)
                          /\ Get(answer.value).action_items = <<>>
                   /\ (HasMarkers(t) /\ ParseResponse(t).summary_text # <<>>) =>
                          /\ answer.success
                          /\ Get(answer.value).conversation_summary
                                 = ParseResponse(t).summary_text

\* C28: GeminiSummarizationProvider.summarize returns a success only with a
\* Summary whose conversation_summary is non-empty: when the upstream
\* response is absent or empty, or when the text extracted for the summary
\* section is empty, it returns a failure; when the response lacks the
\* SUMMARY: / ACTION ITEMS: markers the whole response becomes the summary,
\* with empty action_items.
C28_SummaryNotEmpty ==
    /\ FallbackIsWholeResponse
    /\ GeminiSummaryIsNotEmpty
    /\ (summarization_provider = "gemini" /\ summarize_returned # None
            /\ Get(summarize_returned).success) =>
           /\ Get(summarize_returned).value # None
           /\ Get(Get(summarize_returned).value).conversation_summary # <<>>
           /\ EffectsOf("generate_content") # {}
    /\ (summarization_provider = "gemini" /\ Failed("generate_content")) =>
           ~(summarize_returned # None /\ Get(summarize_returned).success)

\* A response with one marker only became the summary as it was.
C28_Witness ==
    /\ summarization_provider = "gemini"
    /\ pc = "done"
    /\ summarize_returned # None
    /\ Get(summarize_returned).success
    /\ Get(Get(summarize_returned).value).conversation_summary = <<"SUMMARY:", "a">>
    /\ Get(Get(summarize_returned).value).action_items = <<>>

-----------------------------------------------------------------------------
(* The command-line driver *)

\* main() made the call and the process has ended.
MainEnded ==
    /\ args # None
    /\ InProcessAudioFile
    /\ exit_status # None

\* The call main() made returned a failure / a success envelope.
MainGotFailure ==
    /\ MainEnded
    /\ Get(result).kind = "return"
    /\ ~Get(result).value.success

MainGotSuccess ==
    /\ MainEnded
    /\ Get(result).kind = "return"
    /\ Get(result).value.success

\* The formatted result of the returned pair.
FormattedResult ==
    format_console_output(Get(Get(Get(result).value.value)[1]),
                          Get(Get(Get(result).value.value)[2]))

\* The formatted result is among what was printed.
PrintedFormattedResult ==
    \E i \in 1..Len(stdout) : Len(stdout[i]) > RuleWidth

\* C29: the command-line driver exits with non-zero status whenever
\* process_audio_file returns a failure envelope, after printing the message
\* and each entry of errors, and in that case prints no formatted result and
\* writes no output file; for a success envelope it prints the formatted
\* output, and a failure while saving the output file only prints a warning
\* and does not change the successful exit.
C29_DriverExitStatus ==
    /\ (args # None /\ exit_status = None) => (stderr = <<>> /\ files = <<>>)
    /\ (MainEnded /\ Get(result).kind = "return") =>
           (Get(exit_status) = 0 <=> Get(result).value.success)
    /\ MainGotFailure =>
           /\ Get(exit_status) # 0
           /\ stderr # <<>>
           /\ stderr[1] = <<"Error: ">> \o Get(result).value.message
           /\ \A i \in 1..Len(Get(result).value.errors) :
                  /\ Len(stderr) = Len(Get(result).value.errors) + 2
                  /\ stderr[2] = <<"Details:">>
                  /\ stderr[i + 2] = <<"  - ">> \o Get(result).value.errors[i]
           /\ Get(result).value.errors = <<>> => Len(stderr) = 1
           /\ stdout = Preamble(Get(args))
           /\ ~PrintedFormattedResult
           /\ files = <<>>
    /\ MainGotSuccess =>
           /\ Get(exit_status) = 0
           /\ Len(stdout) > Len(Preamble(Get(args)))
           /\ stdout[Len(Preamble(Get(args))) + 1] = FormattedResult
           /\ stdout[Len(stdout)] = <<"\nProcessing completed successfully!">>
           /\ Len(stderr) <= 1
           /\ stderr # <<>> =>
                  /\ StartsWith(stderr[1], "Warning: Failed to save output file: ")
                  /\ files = <<>>
                  /\ ~Falsy(Get(args).output)
           /\ (stderr = <<>> /\ ~Falsy(Get(args).output)) =>
                  /\ Len(files) = 1
                  /\ files[1].path = Get(Get(args).output)
           /\ Falsy(Get(args).output) => files = <<>>

\* The call failed with details, and the process ended with status 1.
C29_Witness ==
    /\ MainGotFailure
    /\ Get(exit_status) = 1
    /\ Len(stderr) = 3
    /\ stderr[2] = <<"Details:">>
    /\ files = <<>>

\* The call succeeded, saving the output file failed and the process ended
\* with status 0 all the same.
SaveFailedExitZero ==
    /\ MainGotSuccess
    /\ Get(exit_status) = 0
    /\ stderr # <<>>
    /\ PrintedFormattedResult

\* Each format was written.
WroteJson ==
    /\ MainGotSuccess
    /\ files # <<>>
    /\ files[1].format = "json"
    /\ files[1].path = <<"out", ".JSON">>

====
